---- MODULE Spec2Model ----
(***************************************************************************)
(* A model of speed-rs (src/src/lib.rs): the fixed-size worker pool        *)
(* (HttpServerThreadPool / HttpServerThreadExecutor), the acceptor loop    *)
(* (HttpServer::listen) and the per-connection pipeline                    *)
(* (HttpServer::handle_tcp_stream, HttpServer::write_response).            *)
(*                                                                         *)
(* Spec      the pool and the acceptor: threads, the job channel, the      *)
(*           receiver mutex, construction and Drop.                        *)
(* FairSpec  Spec with the fairness an OS scheduler gives running threads. *)
(* PipeSpec  one connection through handle_tcp_stream, step by step.       *)
(***************************************************************************)
EXTENDS Integers, Sequences, FiniteSets, TLC

\* bounds of the model
MaxSize == 2
MaxJobs == 2

\* thread 0 is the main thread (the acceptor); 1..MaxSize are executor ids
\* (lib.rs:145 numbers the executors i + 1)
Main == 0
Executors == 1..MaxSize
Threads == 0..MaxSize
Jobs == 1..MaxJobs

VARIABLES
    mode,        \* HttpServer.mode: "SingleThread" | "MultiThread"
    size,        \* the argument of HttpServerThreadPool::new
    pc,          \* pc[t]: where thread t is in its code
    executors,   \* number of HttpServerThreadExecutor pushed so far
    sender,      \* HttpServerThreadPool.sender: "none" | "some" | "taken"
    queue,       \* the mpsc channel's buffer: jobs sent and not yet received
    receiver,    \* the Mutex around the Receiver: its holder, 0 when free
    cur,         \* cur[t]: the job thread t is executing, 0 when none
    joinIdx,     \* Drop's position in `for executor in &mut self.executors`
    accepted,    \* number of connections accepted by listen so far
    stalled,     \* jobs whose connection never delivers the bytes it declared
    taken,       \* history: the jobs in the order recv() handed them out
    called,      \* history: <<[job, by]>> in the order job() was called
    finished,    \* history: <<[job, by, outcome]>> in the order jobs returned
    closedWith,  \* history: what the channel held when the Sender was dropped
    handlers,    \* HttpServer.handlers: the Vec of registered handlers
    error_handler, \* HttpServer.error_handler: the installed error handler
    registered,  \* history: the handlers in the order insert_handler got them
    stream,      \* the accepted connection: what the peer sends on it
    req,         \* handle_tcp_stream's `req`
    res,         \* handle_tcp_stream's `res`
    idx,         \* the position of `for handle in ..iter()`, from 1
    cause,       \* the error of the Err(..) being recovered
    calls,       \* history: every call of a handler or of the error handler
    wire,        \* the bytes write_all has put on the connection
    routes,      \* Router.routes: the Vec of defined routes
    routed       \* history: the routes whose closure the router called

poolVars == <<mode, size, pc, executors, sender, queue, receiver, cur, joinIdx,
              accepted, stalled, taken, called, finished, closedWith>>

\* the state of the connection HttpServer::handle_tcp_stream is followed on
routing == <<routes, routed>>
pipeVars == <<handlers, error_handler, registered, stream, req, res, idx, cause,
              calls, wire, routing>>

\* what each group of actions leaves alone
config == <<mode, size, pipeVars>>
poolState == <<executors, sender, joinIdx>>
chanState == <<queue, receiver>>
history == <<taken, called, finished, closedWith>>

vars == <<poolVars, pipeVars>>

----------------------------------------------------------------------------
\* Construction

\* no connection is followed in detail
NoConnection ==
    /\ handlers = <<>>
    /\ error_handler = "default"
    /\ registered = <<>>
    /\ stream = <<>>
    /\ req = <<>>
    /\ res = <<>>
    /\ idx = 0
    /\ cause = <<>>
    /\ calls = <<>>
    /\ wire = <<>>
    /\ routes = <<>>
    /\ routed = <<>>

Init ==
    /\ NoConnection
    /\ mode \in {"SingleThread", "MultiThread"}
    /\ size \in IF mode = "MultiThread" THEN 0..MaxSize ELSE {0}
    /\ pc = [t \in Threads |->
                IF t = Main
                THEN (IF mode = "MultiThread" THEN "new" ELSE "ready")
                ELSE "none"]
    /\ executors = 0
    /\ sender = "none"
    /\ queue = <<>>
    /\ receiver = 0
    /\ cur = [t \in Threads |-> 0]
    /\ joinIdx = 0
    /\ accepted = 0
    /\ stalled = {}
    /\ taken = <<>>
    /\ called = <<>>
    /\ finished = <<>>
    /\ closedWith = <<>>

\* a mutation of ThreadPoolNew: the assert on size is missing
ThreadPoolNewNoAssert ==
    /\ pc[Main] = "new"
    /\ sender' = "some"
    /\ pc' = [pc EXCEPT ![Main] = "spawn"]
    /\ UNCHANGED <<config, executors, queue, receiver, cur, joinIdx,
                   accepted, stalled, taken, called, finished, closedWith>>

\* HttpServerThreadPool::new up to the loop: assert!(size > 0), then the channel
ThreadPoolNew ==
    /\ pc[Main] = "new"
    /\ IF size > 0
       THEN /\ sender' = "some"
            /\ pc' = [pc EXCEPT ![Main] = "spawn"]
       ELSE /\ sender' = sender
            /\ pc' = [pc EXCEPT ![Main] = "failed"]
    /\ UNCHANGED <<config, executors, queue, receiver, cur, joinIdx,
                   accepted, stalled, taken, called, finished, closedWith>>

\* one iteration of `for i in 0..size`: HttpServerThreadExecutor::new(i + 1, ..)
\* spawns the thread, which starts at the top of its loop
ExecutorNew ==
    /\ pc[Main] = "spawn"
    /\ executors < size
    /\ executors' = executors + 1
    /\ pc' = [pc EXCEPT ![executors + 1] = "lock"]
    /\ UNCHANGED <<config, sender, queue, receiver, cur, joinIdx,
                   accepted, stalled, taken, called, finished, closedWith>>

\* the loop is over: Self { size, executors, sender: Some(sender) }
ThreadPoolBuilt ==
    /\ pc[Main] = "spawn"
    /\ executors >= size
    /\ pc' = [pc EXCEPT ![Main] = "ready"]
    /\ UNCHANGED <<config, executors, sender, queue, receiver, cur, joinIdx,
                   accepted, stalled, taken, called, finished, closedWith>>

\* HttpServer::listen is entered: cb(), then the incoming() loop
Listen ==
    /\ pc[Main] = "ready"
    /\ pc' = [pc EXCEPT ![Main] = "accept"]
    /\ UNCHANGED <<config, executors, sender, queue, receiver, cur, joinIdx,
                   accepted, stalled, taken, called, finished, closedWith>>

----------------------------------------------------------------------------
\* The acceptor: HttpServer::listen

\* a mutation of execute: a bounded queue of one that drops what does not fit
executeLossy(q, j) == IF q # <<>> THEN q ELSE Append(q, j)

\* a mutation of execute: the job is put at the front of the queue
executeFront(q, j) == <<j>> \o q

\* HttpServerThreadPool::execute: Box the closure and send it on the channel
\* (an unbounded mpsc channel: send never blocks)
execute(q, j) == Append(q, j)

\* a mutation of Accept: the acceptor hands a job over only when the queue
\* is empty, and waits until then
AcceptWaits(stall) ==
    /\ pc[Main] = "accept"
    /\ accepted < MaxJobs
    /\ mode = "MultiThread" => queue = <<>>
    /\ accepted' = accepted + 1
    /\ stalled' = IF stall THEN stalled \cup {accepted + 1} ELSE stalled
    /\ IF mode = "MultiThread"
       THEN /\ queue' = execute(queue, accepted + 1)
            /\ UNCHANGED <<pc, cur, called>>
       ELSE /\ pc' = [pc EXCEPT ![Main] = "decode"]
            /\ cur' = [cur EXCEPT ![Main] = accepted + 1]
            /\ called' = Append(called, [job |-> accepted + 1, by |-> Main])
            /\ queue' = queue
    /\ UNCHANGED <<config, poolState, receiver, taken, finished, closedWith>>

\* one iteration of `for stream in self.listener.incoming()`. stall: whether
\* the peer will withhold bytes it declared (read_exact then never returns)
Accept(stall) ==
    /\ pc[Main] = "accept"
    /\ accepted < MaxJobs
    /\ accepted' = accepted + 1
    /\ stalled' = IF stall THEN stalled \cup {accepted + 1} ELSE stalled
    /\ IF mode = "MultiThread"
       THEN /\ queue' = execute(queue, accepted + 1)
            /\ UNCHANGED <<pc, cur, called>>
       ELSE /\ pc' = [pc EXCEPT ![Main] = "decode"]
            /\ cur' = [cur EXCEPT ![Main] = accepted + 1]
            /\ called' = Append(called, [job |-> accepted + 1, by |-> Main])
            /\ queue' = queue
    /\ UNCHANGED <<config, poolState, receiver, taken, finished, closedWith>>

\* `stream.unwrap()` on a failed accept panics out of listen; the unwinding
\* drops the server and with it, in MultiThread mode, the pool
AcceptFail ==
    /\ pc[Main] = "accept"
    /\ pc' = [pc EXCEPT ![Main] =
                 IF mode = "MultiThread" THEN "drop" ELSE "exited"]
    /\ UNCHANGED <<config, poolState, chanState, cur, accepted, stalled, history>>

----------------------------------------------------------------------------
\* The executor thread: HttpServerThreadExecutor::new's closure

\* receiver.lock().unwrap(): the mutex is acquired
Lock(w) ==
    /\ pc[w] = "lock"
    /\ receiver = 0
    /\ receiver' = w
    /\ pc' = [pc EXCEPT ![w] = "recv"]
    /\ UNCHANGED <<config, poolState, queue, cur, accepted, stalled, history>>

\* a mutation of Recv: a closed channel fails at once, whatever it still holds
RecvDiscard(w) ==
    /\ pc[w] = "recv"
    /\ IF queue # <<>> /\ sender # "taken"
       THEN /\ cur' = [cur EXCEPT ![w] = Head(queue)]
            /\ queue' = Tail(queue)
            /\ taken' = Append(taken, Head(queue))
            /\ pc' = [pc EXCEPT ![w] = "ok"]
       ELSE /\ sender = "taken"
            /\ pc' = [pc EXCEPT ![w] = "err"]
            /\ UNCHANGED <<cur, queue, taken>>
    /\ UNCHANGED <<config, poolState, receiver, accepted, stalled, called, finished,
                   closedWith>>

\* .recv(): blocks while the channel is empty and the Sender lives; hands out
\* the oldest job; fails once the Sender is gone and the buffer is empty
Recv(w) ==
    /\ pc[w] = "recv"
    /\ IF queue # <<>>
       THEN /\ cur' = [cur EXCEPT ![w] = Head(queue)]
            /\ queue' = Tail(queue)
            /\ taken' = Append(taken, Head(queue))
            /\ pc' = [pc EXCEPT ![w] = "ok"]
       ELSE /\ sender = "taken"
            /\ pc' = [pc EXCEPT ![w] = "err"]
            /\ UNCHANGED <<cur, queue, taken>>
    /\ UNCHANGED <<config, poolState, receiver, accepted, stalled, called, finished,
                   closedWith>>

\* a mutation of Unlock: the guard lives on while the job runs
UnlockLate(w) ==
    /\ pc[w] \in {"ok", "err"}
    /\ receiver' = IF pc[w] = "ok" THEN receiver ELSE 0
    /\ IF pc[w] = "ok"
       THEN /\ pc' = [pc EXCEPT ![w] = "decode"]
            /\ called' = Append(called, [job |-> cur[w], by |-> w])
       ELSE /\ pc' = [pc EXCEPT ![w] = "done"]
            /\ called' = called
    /\ UNCHANGED <<config, poolState, queue, cur, accepted, stalled, taken, finished,
                   closedWith>>

\* the end of `let job = ...;` drops the MutexGuard; then `match job`:
\* Ok(job) => job(), Err(_) => break
Unlock(w) ==
    /\ pc[w] \in {"ok", "err"}
    /\ receiver' = 0
    /\ IF pc[w] = "ok"
       THEN /\ pc' = [pc EXCEPT ![w] = "decode"]
            /\ called' = Append(called, [job |-> cur[w], by |-> w])
       ELSE /\ pc' = [pc EXCEPT ![w] = "done"]
            /\ called' = called
    /\ UNCHANGED <<config, poolState, queue, cur, accepted, stalled, taken, finished,
                   closedWith>>

----------------------------------------------------------------------------
\* The job: the closure listen builds around handle_tcp_stream

\* a mutation of AfterJob: the thread reads the next request from the same
\* connection
AfterJobKeepAlive(t) == "decode"

\* where a thread goes when its job returns: the acceptor to the next
\* incoming(), an executor to the top of its loop
AfterJob(t) == IF t = Main THEN "accept" ELSE "lock"

\* a mutation of CatchUnwind: no fault boundary, the panic unwinds the thread
NoCatchUnwind(t) == "panicked"

\* panic::catch_unwind(..) returns Err(e): two println!, the job returns
CatchUnwind(t) == AfterJob(t)

\* the job of thread t ends with a panic inside handle_tcp_stream
Panic(t) ==
    /\ pc' = [pc EXCEPT ![t] = CatchUnwind(t)]
    /\ cur' = [cur EXCEPT ![t] = 0]
    /\ finished' = Append(finished,
                      [job |-> cur[t], by |-> t, outcome |-> "abandoned"])

\* a mutation of Decode: the read of a stalled connection gives up
DecodeTimeout(t) ==
    /\ pc[t] = "decode"
    /\ \E panics \in BOOLEAN :
          IF panics
          THEN Panic(t)
          ELSE /\ pc' = [pc EXCEPT ![t] = "chain"]
               /\ UNCHANGED <<cur, finished>>
    /\ UNCHANGED <<config, poolState, chanState, accepted, stalled, taken, called,
                   closedWith>>

\* handle_tcp_stream up to HttpRequest::new: read the headlines and the body.
\* A stalled connection blocks here for ever.
Decode(t) ==
    /\ pc[t] = "decode"
    /\ cur[t] \notin stalled
    /\ \E panics \in BOOLEAN :
          IF panics
          THEN Panic(t)
          ELSE /\ pc' = [pc EXCEPT ![t] = "chain"]
               /\ UNCHANGED <<cur, finished>>
    /\ UNCHANGED <<config, poolState, chanState, accepted, stalled, taken, called,
                   closedWith>>

\* the loop over the handlers
RunChain(t) ==
    /\ pc[t] = "chain"
    /\ \E panics \in BOOLEAN :
          IF panics
          THEN Panic(t)
          ELSE /\ pc' = [pc EXCEPT ![t] = "write"]
               /\ UNCHANGED <<cur, finished>>
    /\ UNCHANGED <<config, poolState, chanState, accepted, stalled, taken, called,
                   closedWith>>

\* HttpServer::write_response, after which the job returns
WriteResponse(t) ==
    /\ pc[t] = "write"
    /\ \E panics \in BOOLEAN :
          IF panics
          THEN Panic(t)
          ELSE /\ pc' = [pc EXCEPT ![t] = AfterJob(t)]
               /\ cur' = [cur EXCEPT ![t] = 0]
               /\ finished' = Append(finished,
                                [job |-> cur[t], by |-> t, outcome |-> "responded"])
    /\ UNCHANGED <<config, poolState, chanState, accepted, stalled, taken, called,
                   closedWith>>

----------------------------------------------------------------------------
\* Drop for HttpServerThreadPool

\* the pool goes out of scope without listen having been entered
DropUnused ==
    /\ pc[Main] = "ready"
    /\ mode = "MultiThread"
    /\ pc' = [pc EXCEPT ![Main] = "drop"]
    /\ UNCHANGED <<config, poolState, chanState, cur, accepted, stalled, history>>

\* a mutation of DropSender: the Sender is left in place
DropSenderKept ==
    /\ pc[Main] = "drop"
    /\ sender' = sender
    /\ joinIdx' = 1
    /\ closedWith' = queue
    /\ pc' = [pc EXCEPT ![Main] = "join"]
    /\ UNCHANGED <<config, executors, chanState, cur, accepted, stalled, taken,
                   called, finished>>

\* drop(self.sender.take()): the channel's only Sender is gone
DropSender ==
    /\ pc[Main] = "drop"
    /\ sender' = "taken"
    /\ joinIdx' = 1
    /\ closedWith' = queue
    /\ pc' = [pc EXCEPT ![Main] = "join"]
    /\ UNCHANGED <<config, executors, chanState, cur, accepted, stalled, taken,
                   called, finished>>

\* a mutation of Join: the handle is taken and dropped, the thread detached
JoinDetached ==
    /\ pc[Main] = "join"
    /\ joinIdx <= executors
    /\ joinIdx' = joinIdx + 1
    /\ UNCHANGED <<config, pc, executors, sender, chanState, cur, accepted,
                   stalled, history>>

\* one iteration of `for executor in &mut self.executors`:
\* thread.join().unwrap() returns when the thread has ended; it panics when
\* the thread ended by a panic
Join ==
    /\ pc[Main] = "join"
    /\ joinIdx <= executors
    /\ pc[joinIdx] \in {"done", "panicked"}
    /\ IF pc[joinIdx] = "done"
       THEN /\ joinIdx' = joinIdx + 1
            /\ pc' = pc
       ELSE /\ joinIdx' = joinIdx
            /\ pc' = [pc EXCEPT ![Main] = "failed"]
    /\ UNCHANGED <<config, executors, sender, chanState, cur, accepted,
                   stalled, history>>

\* the loop is over: drop returns to whoever destroyed the pool
DropReturn ==
    /\ pc[Main] = "join"
    /\ joinIdx > executors
    /\ pc' = [pc EXCEPT ![Main] = "exited"]
    /\ UNCHANGED <<config, poolState, chanState, cur, accepted, stalled, history>>

----------------------------------------------------------------------------

Next ==
    \/ ThreadPoolNew
    \/ ExecutorNew
    \/ ThreadPoolBuilt
    \/ Listen
    \/ \E stall \in BOOLEAN : Accept(stall)
    \/ AcceptFail
    \/ \E w \in Executors : Lock(w)
    \/ \E w \in Executors : Recv(w)
    \/ \E w \in Executors : Unlock(w)
    \/ \E t \in Threads : Decode(t)
    \/ \E t \in Threads : RunChain(t)
    \/ \E t \in Threads : WriteResponse(t)
    \/ DropUnused
    \/ DropSender
    \/ Join
    \/ DropReturn

Spec == Init /\ [][Next]_vars

\* A running thread is eventually scheduled. Nothing obliges a peer to
\* connect or an accept to fail, so Accept and AcceptFail carry no fairness;
\* the mutex is not fair, so Lock is only weakly fair.
Fairness ==
    /\ WF_vars(ThreadPoolNew)
    /\ WF_vars(ExecutorNew)
    /\ WF_vars(ThreadPoolBuilt)
    /\ WF_vars(DropSender)
    /\ WF_vars(Join)
    /\ WF_vars(DropReturn)
    /\ \A w \in Executors :
          WF_vars(Lock(w)) /\ WF_vars(Recv(w)) /\ WF_vars(Unlock(w))
    /\ \A t \in Threads :
          WF_vars(Decode(t)) /\ WF_vars(RunChain(t)) /\ WF_vars(WriteResponse(t))

FairSpec == Spec /\ Fairness

----------------------------------------------------------------------------
\* Properties of the pool and the acceptor

JobStages == {"decode", "chain", "write"}
Submitted == 1..accepted
Occurrences(seq, j) == Cardinality({i \in DOMAIN seq : seq[i] = j})
TimesCalled(j) == Cardinality({i \in DOMAIN called : called[i].job = j})
TimesFinished(j) == Cardinality({i \in DOMAIN finished : finished[i].job = j})
Holders(j) == {t \in Threads : cur[t] = j}
PoolDestroyed == mode = "MultiThread" /\ pc[Main] = "exited"

\* C1: every job submitted through execute is, at any moment, in exactly one
\* place (queued, held by one thread, or finished), is never handed out or
\* called twice, and has been called and has returned exactly once by the
\* time the pool is destroyed.
C1_ExactlyOnce ==
    /\ \A j \in Submitted :
          /\ Occurrences(queue, j) + Cardinality(Holders(j)) + TimesFinished(j) = 1
          /\ Occurrences(taken, j) <= 1
          /\ TimesCalled(j) <= 1
          /\ TimesFinished(j) = 1 => TimesCalled(j) = 1
          /\ PoolDestroyed => TimesCalled(j) = 1 /\ TimesFinished(j) = 1
    /\ \A i \in DOMAIN called : called[i].job \in Submitted
    /\ \A i \in DOMAIN finished : finished[i].job \in Submitted

\* C1 witness: a destroyed pool of two workers that ran two jobs, one each.
C1_Witness ==
    /\ PoolDestroyed
    /\ accepted = 2
    /\ {called[i].by : i \in DOMAIN called} = {1, 2}

\* C2: when drop has returned, every worker thread of the pool has
\* terminated: none is waiting for the lock, in recv, or executing a job.
C2_DropAfterJoin ==
    PoolDestroyed =>
        /\ executors = size
        /\ \A w \in 1..size : pc[w] = "done" /\ cur[w] = 0
        /\ receiver = 0

\* C2 witness: drop has returned for a pool of two workers that ran jobs.
C2_Witness ==
    /\ PoolDestroyed
    /\ size = 2
    /\ Len(finished) >= 2

\* C3: once the Sender is dropped and no submitted job is stalled for ever,
\* drop eventually returns (every worker leaves its loop and is joined).
C3_DropReturns ==
    (mode = "MultiThread" /\ pc[Main] = "join" /\ stalled = {})
        ~> (pc[Main] = "exited")

\* C3 witness: the Sender is dropped while one worker is blocked in recv
\* holding the lock, another is executing a job and no job is stalled.
C3_Witness ==
    /\ pc[Main] = "join"
    /\ stalled = {}
    /\ \E w \in Executors : pc[w] = "recv" /\ receiver = w
    /\ \E w \in Executors : pc[w] \in JobStages

\* C4: a worker has left its loop only if the channel is closed and empty,
\* and when the last worker has terminated every submitted job has been
\* called and has run to completion.
C4_DrainBeforeExit ==
    /\ \A w \in Executors :
          pc[w] \in {"err", "done"} => sender = "taken" /\ queue = <<>>
    /\ (executors = size /\ size > 0 /\ \A w \in 1..size : pc[w] = "done") =>
          /\ \A j \in Submitted : TimesCalled(j) = 1 /\ TimesFinished(j) = 1
          /\ \A i \in DOMAIN closedWith : TimesFinished(closedWith[i]) = 1

\* C4 witness: all workers have terminated, two jobs were still queued when
\* the Sender was dropped, and they have run to completion.
C4_Witness ==
    /\ mode = "MultiThread"
    /\ size = 2
    /\ \A w \in 1..size : pc[w] = "done"
    /\ Len(closedWith) >= 2
    /\ \A i \in DOMAIN closedWith : TimesFinished(closedWith[i]) = 1

\* C5: jobs leave the queue in submission order (jobs are numbered in the
\* order execute was called): the jobs handed out so far are 1, 2, .., k.
C5_Fifo ==
    /\ \A i \in DOMAIN taken : taken[i] = i
    /\ \A i \in DOMAIN queue : queue[i] = Len(taken) + i

\* C5 witness: job 1 was taken before job 2, and job 2 completed first.
C5_Witness ==
    /\ Len(taken) >= 2
    /\ Len(finished) >= 1
    /\ finished[1].job = 2

\* C6: with size 0 construction fails before the channel or any thread
\* exists; construction fails for no other size; a constructed pool has
\* exactly `size` workers, numbered 1..size.
C6_SizeChecked ==
    /\ size = 0 =>
          /\ sender = "none"
          /\ executors = 0
          /\ \A w \in Executors : pc[w] = "none"
          /\ pc[Main] \in (IF mode = "MultiThread"
                           THEN {"new", "failed"}
                           ELSE {"ready", "accept", "exited"} \cup JobStages)
    /\ pc[Main] = "failed" => size = 0 /\ mode = "MultiThread"
    /\ (mode = "MultiThread" /\ pc[Main] \notin {"new", "spawn", "failed"}) =>
          /\ executors = size
          /\ {w \in Executors : pc[w] # "none"} = 1..size

\* C6 witness: HttpServerThreadPool::new(0) has failed.
C6_Witness ==
    /\ mode = "MultiThread"
    /\ size = 0
    /\ pc[Main] = "failed"

\* C7: a panic inside a job never ends the thread that ran it: no thread is
\* ever unwound by a job, an executor ends only because the channel is
\* closed, the acceptor fails only in HttpServerThreadPool::new(0), and the
\* thread that abandoned a connection is back in its loop (or beyond).
C7_FaultBoundary ==
    /\ \A t \in Threads : pc[t] # "panicked"
    /\ \A w \in Executors : pc[w] = "done" => sender = "taken"
    /\ pc[Main] = "failed" => size = 0
    /\ \A i \in DOMAIN finished :
          finished[i].outcome = "abandoned" =>
              /\ TimesFinished(finished[i].job) = 1
              /\ cur[finished[i].by] # finished[i].job

\* C7 witness: an executor abandoned a connection after a panic and then
\* called a later job.
C7_Witness ==
    \E i \in DOMAIN finished, k \in DOMAIN called :
        /\ finished[i].outcome = "abandoned"
        /\ finished[i].by \in Executors
        /\ called[k].by = finished[i].by
        /\ called[k].job > finished[i].job

----------------------------------------------------------------------------
\* Text. A String or a Vec<u8> is a sequence of one-character strings.

\* the first position at or after `from` where `pat` occurs in s, 0 if none
FindFrom(s, pat, from) ==
    LET at == {i \in from..(Len(s) - Len(pat) + 1) :
                  SubSeq(s, i, i + Len(pat) - 1) = pat}
    IN IF at = {} THEN 0
       ELSE CHOOSE i \in at : \A j \in at : i <= j

\* str::find
Find(s, pat) == FindFrom(s, pat, 1)

\* str::split(pat): the pieces between the non-overlapping matches of pat
RECURSIVE split(_, _)
split(s, pat) ==
    LET i == Find(s, pat)
    IN IF i = 0 THEN <<s>>
       ELSE <<SubSeq(s, 1, i - 1)>> \o split(SubSeq(s, i + Len(pat), Len(s)), pat)

\* str::splitn(2, pat): cut at the first match only
splitn2(s, pat) ==
    LET i == Find(s, pat)
    IN IF i = 0 THEN <<s>>
       ELSE <<SubSeq(s, 1, i - 1), SubSeq(s, i + Len(pat), Len(s))>>

UpperCase == <<"A", "B", "C", "D", "E", "F", "G", "H", "I", "J", "K", "L", "M", "N", "O", "P", "Q", "R", "S", "T", "U", "V", "W", "X", "Y", "Z">>
LowerCase == <<"a", "b", "c", "d", "e", "f", "g", "h", "i", "j", "k", "l", "m", "n", "o", "p", "q", "r", "s", "t", "u", "v", "w", "x", "y", "z">>

\* char::to_lowercase, on the ASCII letters
LowerChar(c) ==
    IF \E i \in DOMAIN UpperCase : UpperCase[i] = c
    THEN LowerCase[CHOOSE i \in DOMAIN UpperCase : UpperCase[i] = c]
    ELSE c

\* str::to_lowercase
to_lowercase(s) == [i \in DOMAIN s |-> LowerChar(s[i])]

WhiteSpace == {" ", "\t", "\r", "\n"}

RECURSIVE trim_start(_)
trim_start(s) ==
    IF s # <<>> /\ Head(s) \in WhiteSpace THEN trim_start(Tail(s)) ELSE s

RECURSIVE trim_end(_)
trim_end(s) ==
    IF s # <<>> /\ s[Len(s)] \in WhiteSpace
    THEN trim_end(SubSeq(s, 1, Len(s) - 1))
    ELSE s

\* str::trim
trim(s) == trim_end(trim_start(s))

Digits == <<"0", "1", "2", "3", "4", "5", "6", "7", "8", "9">>
IsDigit(c) == \E d \in DOMAIN Digits : Digits[d] = c
DigitValue(c) == (CHOOSE d \in DOMAIN Digits : Digits[d] = c) - 1

RECURSIVE DigitsValue(_)
DigitsValue(s) ==
    IF s = <<>> THEN 0
    ELSE 10 * DigitsValue(SubSeq(s, 1, Len(s) - 1)) + DigitValue(s[Len(s)])

\* str::parse::<usize>: an optional "+", then at least one digit and digits
\* only. None is -1. (The texts of the model are far too short to overflow.)
parse_usize(s) ==
    LET d == IF s # <<>> /\ Head(s) = "+" THEN Tail(s) ELSE s
    IN IF d # <<>> /\ \A i \in DOMAIN d : IsDigit(d[i])
       THEN DigitsValue(d)
       ELSE -1

\* usize::to_string, i32::to_string (Display) of a number >= 0
RECURSIVE to_string(_)
to_string(n) ==
    IF n < 10 THEN <<Digits[n + 1]>>
    ELSE to_string(n \div 10) \o <<Digits[(n % 10) + 1]>>

\* the Debug form of the Box<dyn Error> made from a &str or String: the text
\* in double quotes (the texts of the model need no escaping)
debug_str(s) == <<"\"">> \o s \o <<"\"">>

\* the lines of a text joined as write_response joins them: each followed by "\n"
RECURSIVE JoinLines(_)
JoinLines(lines) ==
    IF lines = <<>> THEN <<>>
    ELSE Head(lines) \o <<"\n">> \o JoinLines(Tail(lines))

\* HashMap::insert: the key's old value, if any, is replaced
insert(m, k, v) == [x \in DOMAIN m \cup {k} |-> IF x = k THEN v ELSE m[x]]

\* an empty HashMap
EmptyMap == [x \in {} |-> <<>>]

\* the texts of the program
ColonSpace == <<":", " ">>
content_length_lower ==
    <<"c", "o", "n", "t", "e", "n", "t", "-", "l", "e", "n", "g", "t", "h">>
OK == <<"O", "K">>
NotFound == <<"N", "o", "t", " ", "F", "o", "u", "n", "d">>
ok_body == <<"o", "k">>
XFail == <<"X", "-", "F", "a", "i", "l">>
One == <<"1">>
boom == <<"b", "o", "o", "m">>
NinetyNine == <<"9", "9">>
InteralServerError ==
    <<"I", "n", "t", "e", "r", "a", "l", " ", "S", "e", "r", "v", "e", "r",
    " ", "E", "r", "r", "o", "r">>
ContentType == <<"C", "o", "n", "t", "e", "n", "t", "-", "T", "y", "p", "e">>
TextPlain == <<"t", "e", "x", "t", "/", "p", "l", "a", "i", "n">>
UnhandledException ==
    <<"U", "n", "h", "a", "n", "d", "l", "e", "d", " ", "e", "x", "c", "e",
    "p", "t", "i", "o", "n", ":", " ">>
Custom == <<"C", "u", "s", "t", "o", "m">>
OctetStream ==
    <<"a", "p", "p", "l", "i", "c", "a", "t", "i", "o", "n", "/", "o", "c",
    "t", "e", "t", "-", "s", "t", "r", "e", "a", "m">>
ContentLength ==
    <<"C", "o", "n", "t", "e", "n", "t", "-", "L", "e", "n", "g", "t", "h">>

----------------------------------------------------------------------------
\* Requests and responses

\* HttpRequest::new. It panics (ok is FALSE) when there is no headline
\* (remove(0)) or the first one has fewer than three pieces (metadata[2]).
RECURSIVE HeaderMap(_)
HeaderMap(lines) ==
    IF lines = <<>> THEN EmptyMap
    ELSE LET rest == HeaderMap(SubSeq(lines, 1, Len(lines) - 1))
             elements == split(lines[Len(lines)], ColonSpace)
         IN IF Len(elements) >= 2
            THEN insert(rest, elements[1], elements[2])
            ELSE rest

\* a mutation of HttpRequest_new: a token the request line lacks is empty
HttpRequest_new_lenient(request_headlines, body) ==
    LET metadata == IF request_headlines = <<>> THEN <<>>
                    ELSE split(Head(request_headlines), <<" ">>)
        token(k) == IF k <= Len(metadata) THEN metadata[k] ELSE <<>>
    IN [ok |-> TRUE,
        headers |-> IF request_headlines = <<>> THEN EmptyMap
                    ELSE HeaderMap(Tail(request_headlines)),
        body |-> body,
        method |-> token(1),
        uri |-> token(2),
        version |-> token(3)]

HttpRequest_new(request_headlines, body) ==
    IF request_headlines = <<>> THEN [ok |-> FALSE]
    ELSE LET metadata == split(Head(request_headlines), <<" ">>)
         IN IF Len(metadata) < 3 THEN [ok |-> FALSE]
            ELSE [ok |-> TRUE,
                  headers |-> HeaderMap(Tail(request_headlines)),
                  body |-> body,
                  method |-> metadata[1],
                  uri |-> metadata[2],
                  version |-> metadata[3]]

\* a mutation of content_length: the name is compared as it was sent
RECURSIVE content_length_exact(_)
content_length_exact(request_headlines) ==
    IF request_headlines = <<>> THEN 0
    ELSE LET parts == splitn2(Head(request_headlines), <<":">>)
             found == IF parts[1] = ContentLength /\ Len(parts) >= 2
                      THEN parse_usize(trim(parts[2]))
                      ELSE -1
         IN IF found >= 0 THEN found
            ELSE content_length_exact(Tail(request_headlines))

\* the find_map of handle_tcp_stream over the headlines, then unwrap_or(0):
\* the first line whose text before the first ':' is content-length in any
\* case and whose text after it, trimmed, parses
RECURSIVE content_length(_)
content_length(request_headlines) ==
    IF request_headlines = <<>> THEN 0
    ELSE LET parts == splitn2(Head(request_headlines), <<":">>)
             found == IF to_lowercase(parts[1]) = content_length_lower /\ Len(parts) >= 2
                      THEN parse_usize(trim(parts[2]))
                      ELSE -1
         IN IF found >= 0 THEN found
            ELSE content_length(Tail(request_headlines))

\* a mutation of HttpResponse_new: the default status is 200 OK
HttpResponse_new_200 ==
    [headers |-> EmptyMap, body |-> <<>>,
     status |-> [code |-> 200, reason |-> OK]]

\* HttpResponse::new
HttpResponse_new ==
    [headers |-> EmptyMap, body |-> <<>>,
     status |-> [code |-> 404, reason |-> NotFound]]

\* what a handler returns: Ok((req, res)), Err((req, res, e)), or it panics
Ok(rq, rs) == [tag |-> "Ok", req |-> rq, res |-> rs, cause |-> <<>>]
Err(rq, rs, e) == [tag |-> "Err", req |-> rq, res |-> rs, cause |-> e]
Panics(rq, rs) == [tag |-> "Panic", req |-> rq, res |-> rs, cause |-> <<>>]

\* The handlers a program may register are its own closures; these stand for
\* them: one that sets the status as in the example of RequestHandleFunc
\* (lib.rs:42-46), one that sets the body, one that marks the response and
\* reports a failure, one that panics, and one that sets a Content-Length of
\* its own with insert_header.
HandlerKinds == {"status200", "bodyOk", "fail", "panic", "length99"}

Handle(kind, rq, rs) ==
    CASE kind = "status200" ->
            Ok(rq, [rs EXCEPT !.status = [code |-> 200, reason |-> OK]])
      [] kind = "bodyOk" ->
            Ok(rq, [rs EXCEPT !.body = ok_body])
      [] kind = "fail" ->
            Err(rq, [rs EXCEPT !.headers = insert(@, XFail, One)], boom)
      [] kind = "length99" ->
            Ok(rq, [rs EXCEPT !.headers = insert(@, ContentLength, NinetyNine)])
      [] OTHER -> Panics(rq, rs)

\* the closure HttpServer::new installs as error handler
default_error_handler(rq, rs, err) ==
    Ok(rq, [status |-> [code |-> 500, reason |-> InteralServerError],
            headers |-> insert(rs.headers, ContentType, TextPlain),
            body |-> UnhandledException \o debug_str(err)])

\* a closure given to set_error_handler: it sets its own status and adds a
\* mark to the body it is given
custom_error_handler(rq, rs, err) ==
    Ok(rq, [rs EXCEPT !.status = [code |-> 503, reason |-> Custom],
                      !.body = @ \o <<"!">>])

ErrorHandlerKinds == {"default", "custom"}

HandleError(kind, rq, rs, err) ==
    IF kind = "default"
    THEN default_error_handler(rq, rs, err)
    ELSE custom_error_handler(rq, rs, err)

\* a HashMap is iterated in an order of its own: any order of the keys
Orders(m) ==
    {o \in [1..Cardinality(DOMAIN m) -> DOMAIN m] :
        \A i, j \in DOMAIN o : i # j => o[i] # o[j]}

\* a mutation of final_headers: the default Content-Type is always inserted
final_headers_octet(rs) ==
    insert(insert(rs.headers, ContentType, OctetStream),
           ContentLength, to_string(Len(rs.body)))

\* a mutation of final_headers: a Content-Length the response already has
\* is kept
final_headers_keep(rs) ==
    LET h1 == IF ContentType \in DOMAIN rs.headers
              THEN rs.headers
              ELSE insert(rs.headers, ContentType, OctetStream)
    IN IF ContentLength \in DOMAIN h1 THEN h1
       ELSE insert(h1, ContentLength, to_string(Len(rs.body)))

\* write_response's part before the headlines: the default Content-Type
\* when the response has none, and Content-Length from the body
final_headers(rs) ==
    LET h1 == IF ContentType \in DOMAIN rs.headers
              THEN rs.headers
              ELSE insert(rs.headers, ContentType, OctetStream)
    IN insert(h1, ContentLength, to_string(Len(rs.body)))

\* a mutation of write_response: the status line always says HTTP/1.1
write_response_http11(rq, rs, order) ==
    LET hs == final_headers(rs)
        status_line == <<"H", "T", "T", "P", "/", "1", ".", "1">> \o <<" ">>
                          \o to_string(rs.status.code)
                          \o <<" ">> \o rs.status.reason
        response_headlines ==
            <<status_line>> \o [i \in DOMAIN order |->
                                   order[i] \o ColonSpace \o hs[order[i]]]
    IN JoinLines(response_headlines) \o <<"\n">> \o rs.body

\* HttpServer::write_response up to write_all: the bytes of the response,
\* `order` being the order in which the header map is iterated
write_response(rq, rs, order) ==
    LET hs == final_headers(rs)
        status_line == rq.version \o <<" ">> \o to_string(rs.status.code)
                          \o <<" ">> \o rs.status.reason
        response_headlines ==
            <<status_line>> \o [i \in DOMAIN order |->
                                   order[i] \o ColonSpace \o hs[order[i]]]
    IN JoinLines(response_headlines) \o <<"\n">> \o rs.body

----------------------------------------------------------------------------
\* Routing (utils.rs). A Route is its path and its closure: Route::all calls
\* the handler it was given, Route::get calls it for the method GET only.
\* `filter` is the method the closure asks for, empty for Route::all.

GET == <<"G", "E", "T">>
POST == <<"P", "O", "S", "T">>
PUT == <<"P", "U", "T">>
PATCH == <<"P", "A", "T", "C", "H">>
DELETE == <<"D", "E", "L", "E", "T", "E">>

Route_all(path, handler) == [path |-> path, filter |-> <<>>, handler |-> handler]
Route_get(path, handler) == [path |-> path, filter |-> GET, handler |-> handler]
Route_post(path, handler) == [path |-> path, filter |-> POST, handler |-> handler]
Route_put(path, handler) == [path |-> path, filter |-> PUT, handler |-> handler]
Route_patch(path, handler) == [path |-> path, filter |-> PATCH, handler |-> handler]
Route_delete(path, handler) == [path |-> path, filter |-> DELETE, handler |-> handler]

\* a mutation of RouteCall: the method is compared ignoring case
RouteCall_anycase(route, rq, rs) ==
    IF route.filter = <<>> \/ to_lowercase(rq.method) = to_lowercase(route.filter)
    THEN Handle(route.handler, rq, rs)
    ELSE Ok(rq, rs)

\* route.1(req, res): the closure of a route
RouteCall(route, rq, rs) ==
    IF route.filter = <<>> \/ rq.method = route.filter
    THEN Handle(route.handler, rq, rs)
    ELSE Ok(rq, rs)

\* break_request_uri(req).0: the text of the URI before its first '?'
path_of(rq) == split(rq.uri, <<"?">>)[1]

\* a mutation of router_loop: the loop goes on after a match, each matching
\* route getting what the one before returned
RECURSIVE router_loop_all(_, _, _, _)
router_loop_all(rts, i, rq, rs) ==
    IF i > Len(rts) THEN [result |-> Ok(rq, rs), ran |-> <<>>]
    ELSE IF rts[i].path = path_of(rq)
         THEN LET r == RouteCall(rts[i], rq, rs)
                  more == router_loop_all(rts, i + 1, r.req, r.res)
              IN IF r.tag = "Ok"
                 THEN [result |-> more.result, ran |-> <<i>> \o more.ran]
                 ELSE [result |-> r, ran |-> <<i>>]
         ELSE router_loop_all(rts, i + 1, rq, rs)

\* the loop of the closure insert_router registers, from the i-th route on:
\* what it returns, and the routes whose closure it called
RECURSIVE router_loop(_, _, _, _)
router_loop(rts, i, rq, rs) ==
    IF i > Len(rts) THEN [result |-> Ok(rq, rs), ran |-> <<>>]
    ELSE IF rts[i].path = path_of(rq)
         THEN [result |-> RouteCall(rts[i], rq, rs), ran |-> <<i>>]
         ELSE router_loop(rts, i + 1, rq, rs)

\* Static files (utils.rs). The directory the server runs in: each entry is
\* a path from it, whether it is a regular file, and the file's bytes.
Files ==
    { [path |-> <<"p", "u", "b", "l", "i", "c">>,
       is_file |-> FALSE, data |-> <<>>],
      [path |-> <<"p", "u", "b", "l", "i", "c", "/", "s", "u", "b">>,
       is_file |-> FALSE, data |-> <<>>],
      [path |-> <<"p", "u", "b", "l", "i", "c", "/", "x", ".", "t", "x", "t">>,
       is_file |-> TRUE, data |-> <<"h", "e", "l", "l", "o">>],
      [path |-> <<"p", "u", "b", "l", "i", "c", "/", "i", "n", "d", "e", "x", ".", "h", "t", "m", "l">>,
       is_file |-> TRUE, data |-> <<"<", "p", ">">>],
      [path |-> <<"s", "e", "c", "r", "e", "t", ".", "t", "x", "t">>,
       is_file |-> TRUE, data |-> <<"k", "e", "y">>],
      [path |-> <<"p", "u", "b", "l", "i", "c", "f", "o", "o">>,
       is_file |-> FALSE, data |-> <<>>],
      [path |-> <<"p", "u", "b", "l", "i", "c", "f", "o", "o", "/", "x">>,
       is_file |-> TRUE, data |-> <<"f", "o", "o">>] }

\* the path the system opens for a path as written: "." and empty segments
\* dropped, ".." leaving the directory reached so far
RECURSIVE Resolve(_, _)
Resolve(segments, reached) ==
    IF segments = <<>> THEN reached
    ELSE LET s == Head(segments)
         IN IF s = <<>> \/ s = <<".">> THEN Resolve(Tail(segments), reached)
            ELSE IF s = <<".", ".">>
            THEN Resolve(Tail(segments),
                         SubSeq(reached, 1, Len(reached) - 1))
            ELSE Resolve(Tail(segments), Append(reached, s))

RECURSIVE JoinPath(_)
JoinPath(segments) ==
    IF segments = <<>> THEN <<>>
    ELSE IF Len(segments) = 1 THEN segments[1]
    ELSE segments[1] \o <<"/">> \o JoinPath(Tail(segments))

Canonical(file_path) == JoinPath(Resolve(split(file_path, <<"/">>), <<>>))

\* File::open(&file_path) with file.metadata(): the entries found
File_open(file_path) == {f \in Files : f.path = Canonical(file_path)}

\* MimeGuess::from_path(..).first_or(TEXT_PLAIN): the type of the extension
\* after the last '.', text/plain when it has none or an unknown one
Extension(file_path) ==
    LET name == split(file_path, <<"/">>)[Len(split(file_path, <<"/">>))]
        parts == split(name, <<".">>)
    IN IF Len(parts) < 2 THEN <<>> ELSE parts[Len(parts)]
TextHtml == <<"t", "e", "x", "t", "/", "h", "t", "m", "l">>
mime_guess(file_path) ==
    IF Extension(file_path) = <<"h", "t", "m", "l">> THEN TextHtml
    ELSE TextPlain

\* serve_static(None): the default root directory
roor_dir == <<"p", "u", "b", "l", "i", "c">>

\* a mutation of serve_static: metadata.is_file() is not asked
serve_static_any(rq, rs) ==
    LET path == path_of(rq)
        prefix == <<"/">> \o roor_dir
        rest == SubSeq(path, Len(prefix) + 1, Len(path))
        file_path == roor_dir \o rest
    IN IF Find(path, prefix) = 1 /\ File_open(file_path) # {}
       THEN LET file == CHOOSE f \in File_open(file_path) : TRUE
            IN Ok(rq, [status |-> [code |-> 200, reason |-> OK],
                       headers |-> insert(rs.headers, ContentType,
                                          mime_guess(file_path)),
                       body |-> file.data])
       ELSE Ok(rq, rs)

\* the closure serve_static registers
serve_static(rq, rs) ==
    LET path == path_of(rq)
        prefix == <<"/">> \o roor_dir
        rest == SubSeq(path, Len(prefix) + 1, Len(path))
        file_path == roor_dir \o rest
    IN IF Find(path, prefix) = 1
          /\ \E f \in File_open(file_path) : f.is_file
       THEN LET file == CHOOSE f \in File_open(file_path) : TRUE
            IN Ok(rq, [status |-> [code |-> 200, reason |-> OK],
                       headers |-> insert(rs.headers, ContentType,
                                          mime_guess(file_path)),
                       body |-> file.data])
       ELSE Ok(rq, rs)

\* handle(req, res) in handle_tcp_stream: the registered closure is the
\* router's, the one of serve_static or a handler's own
Invoke(kind, rq, rs) ==
    IF kind = "router"
    THEN router_loop(routes, 1, rq, rs)
    ELSE IF kind = "static"
    THEN [result |-> serve_static(rq, rs), ran |-> <<>>]
    ELSE [result |-> Handle(kind, rq, rs), ran |-> <<>>]

----------------------------------------------------------------------------
\* One connection through HttpServer::handle_tcp_stream, on a SingleThread
\* server: the acceptor runs the job itself.

\* bound of the model: how many handlers a program registers
MaxHandlers == 2

\* what a peer sends: the lines up to the first empty line (or to the end of
\* the stream), the bytes after that line, and whether the peer then leaves
\* the connection open (a read for more blocks) or closes it (it fails)
Streams ==
    { [lines |-> <<<<"G", "E", "T", " ", "/", " ", "H", "T", "T", "P", "/", "1", ".", "1">>>>,
       rest |-> <<>>, open |-> TRUE],
      [lines |-> <<<<"P", "O", "S", "T", " ", "/", "b", " ", "H", "T", "T", "P", "/", "1", ".", "0">>,
                   <<"C", "o", "n", "t", "e", "n", "t", "-", "L", "e", "n", "g", "t", "h", ":", " ", "2">>>>,
       rest |-> <<"h", "i", "!">>, open |-> TRUE],
      [lines |-> <<<<"G", "E", "T", " ", "/", "a">>>>,
       rest |-> <<>>, open |-> FALSE],
      [lines |-> <<>>,
       rest |-> <<>>, open |-> FALSE],
      [lines |-> <<<<"G", "E", "T", " ", "/", "a", "/", "b", "?", "x", "=", "1", " ", "H", "T", "T", "P", "/", "1", ".", "1">>,
                   <<"X", "-", "F", "o", "o", ":", " ", "b", "a", "r">>,
                   <<"g", "a", "r", "b", "a", "g", "e">>,
                   <<"x", "-", "f", "o", "o", ":", " ", "b", "a", "z">>>>,
       rest |-> <<>>, open |-> TRUE],
      [lines |-> <<<<"G", "E", "T", " ", "/", " ", "H", "T", "T", "P", "/", "1", ".", "1">>,
                   <<"X", "-", "F", "o", "o", ":", " ", "1">>,
                   <<"N", "o", "t", "e", ":", " ", "a", ":", " ", "b">>,
                   <<"X", "-", "F", "o", "o", ":", " ", "2">>>>,
       rest |-> <<>>, open |-> TRUE],
      [lines |-> <<<<"P", "O", "S", "T", " ", "/", " ", "H", "T", "T", "P", "/", "1", ".", "1">>,
                   <<"c", "o", "n", "t", "e", "n", "t", "-", "L", "E", "N", "G", "T", "H", ":", " ", " ", "2", " ">>>>,
       rest |-> <<"h", "i">>, open |-> TRUE],
      [lines |-> <<<<"P", "O", "S", "T", " ", "/", " ", "H", "T", "T", "P", "/", "1", ".", "1">>,
                   <<"C", "o", "n", "t", "e", "n", "t", "-", "L", "e", "n", "g", "t", "h", ":", " ", "-", "1">>>>,
       rest |-> <<"h", "i">>, open |-> TRUE],
      [lines |-> <<<<"P", "O", "S", "T", " ", "/", " ", "H", "T", "T", "P", "/", "1", ".", "1">>,
                   <<"C", "o", "n", "t", "e", "n", "t", "-", "L", "e", "n", "g", "t", "h", ":", " ", "3">>>>,
       rest |-> <<"h", "i">>, open |-> FALSE],
      [lines |-> <<<<"P", "O", "S", "T", " ", "/", " ", "H", "T", "T", "P", "/", "1", ".", "1">>,
                   <<"C", "o", "n", "t", "e", "n", "t", "-", "L", "e", "n", "g", "t", "h", ":", "2">>>>,
       rest |-> <<"h", "i">>, open |-> TRUE],
      [lines |-> <<<<"P", "O", "S", "T", " ", "/", " ", "H", "T", "T", "P", "/", "1", ".", "1">>,
                   <<"C", "o", "n", "t", "e", "n", "t", "-", "L", "e", "n", "g", "t", "h", ":", " ", "2">>,
                   <<"C", "o", "n", "t", "e", "n", "t", "-", "L", "e", "n", "g", "t", "h", ":", " ", "5">>>>,
       rest |-> <<"h", "e", "l", "l", "o">>, open |-> TRUE] }

\* a mutation of read_exact: like Read::read, it returns the bytes there are
read_some(bytes, n) ==
    [ok |-> TRUE, buf |-> SubSeq(bytes, 1, IF n <= Len(bytes) THEN n ELSE Len(bytes))]

\* Read::read_exact into a buffer of n bytes: the next n bytes of the stream,
\* and no result while the stream has fewer
read_exact(bytes, n) ==
    IF n <= Len(bytes)
    THEN [ok |-> TRUE, buf |-> SubSeq(bytes, 1, n)]
    ELSE [ok |-> FALSE, buf |-> <<>>]

\* a mutation of insert_handler: the new handler is put first
insert_handler_first(hs, h) == <<h>> \o hs

\* HttpServer::insert_handler: writter.push(Box::new(handler))
insert_handler(hs, h) == Append(hs, h)

poolRest == <<mode, size, executors, sender, joinIdx, queue, receiver, stalled,
              taken, closedWith>>

\* a mutation of InsertHandler: it can also be called while listen runs
InsertHandlerLate(h) ==
    /\ pc[Main] \in {"ready", "accept"}
    /\ Len(handlers) < MaxHandlers
    /\ handlers' = insert_handler(handlers, h)
    /\ registered' = Append(registered, h)
    /\ UNCHANGED <<poolRest, routing, pc, cur, accepted, called, finished, error_handler,
                   stream, req, res, idx, cause, calls, wire>>

\* HttpServer::insert_handler(&mut self, ..): the server is not yet lent to
\* listen(&self, ..), which never gives it back
InsertHandler(h) ==
    /\ pc[Main] = "ready"
    /\ Len(handlers) < MaxHandlers
    /\ handlers' = insert_handler(handlers, h)
    /\ registered' = Append(registered, h)
    /\ UNCHANGED <<poolRest, routing, pc, cur, accepted, called, finished, error_handler,
                   stream, req, res, idx, cause, calls, wire>>

\* HttpServer::set_error_handler: *writter = Box::new(handler)
SetErrorHandler(e) ==
    /\ pc[Main] = "ready"
    /\ error_handler' = e
    /\ UNCHANGED <<poolRest, routing, pc, cur, accepted, called, finished, handlers,
                   registered, stream, req, res, idx, cause, calls, wire>>

\* listen accepts the connection the model follows and, in SingleThread
\* mode, calls handle_tcp_stream on it inside catch_unwind
Connect(s) ==
    /\ mode = "SingleThread"
    /\ pc[Main] = "accept"
    /\ accepted = 0
    /\ accepted' = 1
    /\ stream' = s
    /\ pc' = [pc EXCEPT ![Main] = "decode"]
    /\ cur' = [cur EXCEPT ![Main] = 1]
    /\ called' = Append(called, [job |-> 1, by |-> Main])
    /\ UNCHANGED <<poolRest, routing, finished, handlers, error_handler, registered,
                   req, res, idx, cause, calls, wire>>

\* handle_tcp_stream up to `let mut res = HttpResponse::new()`: the headlines,
\* the content length, the body (read_exact blocks on an open stream that is
\* too short, and fails on a closed one), HttpRequest::new
ReadRequest ==
    /\ pc[Main] = "decode"
    /\ stream # <<>>
    /\ LET n == content_length(stream.lines)
           read == read_exact(stream.rest, n)
           parsed == HttpRequest_new(stream.lines, read.buf)
       IN /\ ~read.ok => ~stream.open
          /\ IF ~read.ok \/ ~parsed.ok
             THEN /\ Panic(Main)
                  /\ UNCHANGED <<req, res, idx>>
             ELSE /\ req' = parsed
                  /\ res' = HttpResponse_new
                  /\ idx' = 1
                  /\ pc' = [pc EXCEPT ![Main] = "chain"]
                  /\ UNCHANGED <<cur, finished>>
    /\ UNCHANGED <<poolRest, routing, accepted, called, handlers, error_handler,
                   registered, stream, cause, calls, wire>>

\* one iteration of `for handle in ..iter()`, up to the match: handle(req, res)
CallHandler ==
    /\ pc[Main] = "chain"
    /\ stream # <<>>
    /\ idx <= Len(handlers)
    /\ LET call == Invoke(handlers[idx], req, res)
           r == call.result
       IN /\ calls' = Append(calls, [fn |-> "handler", kind |-> handlers[idx],
                                     idx |-> idx, req |-> req, res |-> res,
                                     cause |-> <<>>, result |-> r])
          /\ routed' = routed \o call.ran
          /\ CASE r.tag = "Ok" ->
                    /\ req' = r.req
                    /\ res' = r.res
                    /\ idx' = idx + 1
                    /\ UNCHANGED <<pc, cur, finished, cause>>
               [] r.tag = "Err" ->
                    /\ req' = r.req
                    /\ res' = r.res
                    /\ cause' = r.cause
                    /\ pc' = [pc EXCEPT ![Main] = "recover"]
                    /\ UNCHANGED <<idx, cur, finished>>
               [] OTHER ->
                    /\ Panic(Main)
                    /\ UNCHANGED <<req, res, idx, cause>>
    /\ UNCHANGED <<poolRest, routes, accepted, called, handlers, error_handler,
                   registered, stream, wire>>

\* a mutation of AfterRecover: a failure ends the chain
AbortChain(i) == Len(handlers) + 1

\* where the loop goes on after the Err arm of the match: the next handler
AfterRecover(i) == i + 1

\* the Err arm: request_error_handle.read().unwrap()(req, res, e)
CallErrorHandler ==
    /\ pc[Main] = "recover"
    /\ stream # <<>>
    /\ LET r == HandleError(error_handler, req, res, cause)
       IN /\ calls' = Append(calls, [fn |-> "error", kind |-> error_handler,
                                     idx |-> idx, req |-> req, res |-> res,
                                     cause |-> cause, result |-> r])
          /\ req' = r.req
          /\ res' = r.res
    /\ cause' = <<>>
    /\ idx' = AfterRecover(idx)
    /\ pc' = [pc EXCEPT ![Main] = "chain"]
    /\ UNCHANGED <<poolRest, routing, cur, accepted, called, finished, handlers,
                   error_handler, registered, stream, wire>>

\* the loop over the handlers is over
ChainDone ==
    /\ pc[Main] = "chain"
    /\ stream # <<>>
    /\ idx > Len(handlers)
    /\ pc' = [pc EXCEPT ![Main] = "write"]
    /\ UNCHANGED <<poolRest, cur, accepted, called, finished, pipeVars>>

\* HttpServer::write_response: write_all puts the bytes on the connection,
\* or fails, and the unwrap panics (what the peer then got is not modelled)
SendResponse ==
    /\ pc[Main] = "write"
    /\ stream # <<>>
    /\ \E fails \in BOOLEAN :
          IF fails
          THEN /\ Panic(Main)
               /\ wire' = wire
          ELSE /\ \E order \in Orders(final_headers(res)) :
                      wire' = write_response(req, res, order)
               /\ pc' = [pc EXCEPT ![Main] = AfterJob(Main)]
               /\ cur' = [cur EXCEPT ![Main] = 0]
               /\ finished' = Append(finished,
                                [job |-> cur[Main], by |-> Main,
                                 outcome |-> "responded"])
    /\ UNCHANGED <<poolRest, routing, accepted, called, handlers, error_handler,
                   registered, stream, req, res, idx, cause, calls>>

PipeInit ==
    /\ Init
    /\ mode = "SingleThread"

PipeNext ==
    \/ \E h \in HandlerKinds : InsertHandler(h)
    \/ \E e \in ErrorHandlerKinds : SetErrorHandler(e)
    \/ Listen
    \/ \E s \in Streams : Connect(s)
    \/ ReadRequest
    \/ CallHandler
    \/ CallErrorHandler
    \/ ChainDone
    \/ SendResponse
    \/ AcceptFail

PipeSpec == PipeInit /\ [][PipeNext]_vars

----------------------------------------------------------------------------
\* A server whose one handler is a router: the program defines the routes,
\* hands the router to insert_router, and the connection is answered as above.

\* bound of the model: how many routes a program defines
MaxRoutes == 2

RoutePaths == {<<"/", "a">>, <<"/", "b">>, <<"/", "t", "e", "s", "t", "/">>}
RouteHandlers == {"status200", "bodyOk"}
Routes ==
    {Route_all(p, h) : p \in RoutePaths, h \in RouteHandlers}
       \cup {Route_get(p, h) : p \in RoutePaths, h \in RouteHandlers}

\* the requests sent to a server with a router
RouteStreams ==
    { [lines |-> <<<<"G", "E", "T", " ", "/", "a", " ", "H", "T", "T", "P", "/", "1", ".", "1">>>>,
       rest |-> <<>>, open |-> TRUE],
      [lines |-> <<<<"G", "E", "T", " ", "/", "c", " ", "H", "T", "T", "P", "/", "1", ".", "1">>>>,
       rest |-> <<>>, open |-> TRUE],
      [lines |-> <<<<"G", "E", "T", " ", "/", "a", "?", "x", "=", "1", " ", "H", "T", "T", "P", "/", "1", ".", "1">>>>,
       rest |-> <<>>, open |-> TRUE],
      [lines |-> <<<<"G", "E", "T", " ", "/", "t", "e", "s", "t", "/", " ", "H", "T", "T", "P", "/", "1", ".", "1">>>>,
       rest |-> <<>>, open |-> TRUE],
      [lines |-> <<<<"P", "O", "S", "T", " ", "/", "t", "e", "s", "t", "/", " ", "H", "T", "T", "P", "/", "1", ".", "1">>>>,
       rest |-> <<>>, open |-> TRUE] }

\* Router::define_route: self.routes.push(route), while the program still
\* owns the router
DefineRoute(r) ==
    /\ mode = "SingleThread"
    /\ pc[Main] = "ready"
    /\ handlers = <<>>
    /\ Len(routes) < MaxRoutes
    /\ routes' = Append(routes, r)
    /\ UNCHANGED <<poolRest, pc, cur, accepted, called, finished, handlers,
                   error_handler, registered, stream, req, res, idx, cause,
                   calls, wire, routed>>

\* Routing::insert_router: insert_handler with the closure that owns the
\* router
InsertRouter ==
    /\ mode = "SingleThread"
    /\ pc[Main] = "ready"
    /\ handlers = <<>>
    /\ handlers' = insert_handler(handlers, "router")
    /\ registered' = Append(registered, "router")
    /\ UNCHANGED <<poolRest, routing, pc, cur, accepted, called, finished,
                   error_handler, stream, req, res, idx, cause, calls, wire>>

RouteInit ==
    /\ Init
    /\ mode = "SingleThread"

RouteNext ==
    \/ \E r \in Routes : DefineRoute(r)
    \/ InsertRouter
    \/ Listen
    \/ \E s \in RouteStreams : Connect(s)
    \/ ReadRequest
    \/ CallHandler
    \/ ChainDone
    \/ SendResponse
    \/ AcceptFail

RouteSpec == RouteInit /\ [][RouteNext]_vars

----------------------------------------------------------------------------
\* A server whose router holds routes of every constructor of Route for one
\* path, asked with every method.

MethodRoutes ==
    UNION {{Route_all(<<"/", "a">>, h), Route_get(<<"/", "a">>, h),
            Route_post(<<"/", "a">>, h), Route_put(<<"/", "a">>, h),
            Route_patch(<<"/", "a">>, h), Route_delete(<<"/", "a">>, h)} :
              h \in RouteHandlers}

MethodStreams ==
    { [lines |-> <<<<"G", "E", "T", " ", "/", "a", " ", "H", "T", "T", "P", "/", "1", ".", "1">>>>,
       rest |-> <<>>, open |-> TRUE],
      [lines |-> <<<<"P", "O", "S", "T", " ", "/", "a", " ", "H", "T", "T", "P", "/", "1", ".", "1">>>>,
       rest |-> <<>>, open |-> TRUE],
      [lines |-> <<<<"P", "U", "T", " ", "/", "a", " ", "H", "T", "T", "P", "/", "1", ".", "1">>>>,
       rest |-> <<>>, open |-> TRUE],
      [lines |-> <<<<"P", "A", "T", "C", "H", " ", "/", "a", " ", "H", "T", "T", "P", "/", "1", ".", "1">>>>,
       rest |-> <<>>, open |-> TRUE],
      [lines |-> <<<<"D", "E", "L", "E", "T", "E", " ", "/", "a", " ", "H", "T", "T", "P", "/", "1", ".", "1">>>>,
       rest |-> <<>>, open |-> TRUE],
      [lines |-> <<<<"g", "e", "t", " ", "/", "a", " ", "H", "T", "T", "P", "/", "1", ".", "1">>>>,
       rest |-> <<>>, open |-> TRUE],
      [lines |-> <<<<"H", "E", "A", "D", " ", "/", "a", " ", "H", "T", "T", "P", "/", "1", ".", "1">>>>,
       rest |-> <<>>, open |-> TRUE] }

MethodNext ==
    \/ \E r \in MethodRoutes : DefineRoute(r)
    \/ InsertRouter
    \/ Listen
    \/ \E s \in MethodStreams : Connect(s)
    \/ ReadRequest
    \/ CallHandler
    \/ ChainDone
    \/ SendResponse
    \/ AcceptFail

MethodSpec == RouteInit /\ [][MethodNext]_vars

----------------------------------------------------------------------------
\* A server that serves static files from "public", alone or next to a
\* handler that writes a body.

StaticStreams ==
    { [lines |-> <<<<"G", "E", "T", " ", "/", "p", "u", "b", "l", "i", "c", "/", "x", ".", "t", "x", "t", " ", "H", "T", "T", "P", "/", "1", ".", "1">>>>,
       rest |-> <<>>, open |-> TRUE],
      [lines |-> <<<<"G", "E", "T", " ", "/", "p", "u", "b", "l", "i", "c", "/", "m", "i", "s", "s", "i", "n", "g", ".", "t", "x", "t", " ", "H", "T", "T", "P", "/", "1", ".", "1">>>>,
       rest |-> <<>>, open |-> TRUE],
      [lines |-> <<<<"G", "E", "T", " ", "/", "x", ".", "t", "x", "t", " ", "H", "T", "T", "P", "/", "1", ".", "1">>>>,
       rest |-> <<>>, open |-> TRUE],
      [lines |-> <<<<"G", "E", "T", " ", "/", "p", "u", "b", "l", "i", "c", "/", "i", "n", "d", "e", "x", ".", "h", "t", "m", "l", "?", "v", "=", "1", " ", "H", "T", "T", "P", "/", "1", ".", "1">>>>,
       rest |-> <<>>, open |-> TRUE],
      [lines |-> <<<<"G", "E", "T", " ", "/", "p", "u", "b", "l", "i", "c", "/", "s", "u", "b", " ", "H", "T", "T", "P", "/", "1", ".", "1">>>>,
       rest |-> <<>>, open |-> TRUE],
      [lines |-> <<<<"G", "E", "T", " ", "/", "p", "u", "b", "l", "i", "c", "f", "o", "o", "/", "x", " ", "H", "T", "T", "P", "/", "1", ".", "1">>>>,
       rest |-> <<>>, open |-> TRUE],
      [lines |-> <<<<"G", "E", "T", " ", "/", "p", "u", "b", "l", "i", "c", "/", ".", ".", "/", "s", "e", "c", "r", "e", "t", ".", "t", "x", "t", " ", "H", "T", "T", "P", "/", "1", ".", "1">>>>,
       rest |-> <<>>, open |-> TRUE],
      [lines |-> <<<<"G", "E", "T", " ", "/", "a", "/", "p", "u", "b", "l", "i", "c", "/", "x", ".", "t", "x", "t", " ", "H", "T", "T", "P", "/", "1", ".", "1">>>>,
       rest |-> <<>>, open |-> TRUE],
      [lines |-> <<<<"G", "E", "T", " ", "/", "p", "u", "b", "l", "i", "c", " ", "H", "T", "T", "P", "/", "1", ".", "1">>>>,
       rest |-> <<>>, open |-> TRUE] }

\* ServeStatic::serve_static: insert_handler with the closure over the root
ServeStatic ==
    /\ mode = "SingleThread"
    /\ pc[Main] = "ready"
    /\ Len(handlers) < MaxHandlers
    /\ handlers' = insert_handler(handlers, "static")
    /\ registered' = Append(registered, "static")
    /\ UNCHANGED <<poolRest, routing, pc, cur, accepted, called, finished,
                   error_handler, stream, req, res, idx, cause, calls, wire>>

StaticNext ==
    \/ ServeStatic
    \/ InsertHandler("bodyOk")
    \/ Listen
    \/ \E s \in StaticStreams : Connect(s)
    \/ ReadRequest
    \/ CallHandler
    \/ ChainDone
    \/ SendResponse
    \/ AcceptFail

StaticSpec == RouteInit /\ [][StaticNext]_vars

----------------------------------------------------------------------------
\* A MultiThread server from the pool's construction on: the program
\* registers handlers and an error handler, then calls listen, and the
\* executors run the jobs.

SetupInit ==
    /\ Init
    /\ mode = "MultiThread"

SetupNext ==
    \/ ThreadPoolNew
    \/ ExecutorNew
    \/ ThreadPoolBuilt
    \/ InsertHandler("status200")
    \/ \E e \in ErrorHandlerKinds : SetErrorHandler(e)
    \/ Listen
    \/ Accept(FALSE)
    \/ \E w \in Executors : Lock(w)
    \/ \E w \in Executors : Recv(w)
    \/ \E w \in Executors : Unlock(w)
    \/ \E t \in Threads : Decode(t)
    \/ \E t \in Threads : RunChain(t)
    \/ \E t \in Threads : WriteResponse(t)

SetupSpec == SetupInit /\ [][SetupNext]_vars

----------------------------------------------------------------------------
\* Properties of the connection pipeline

IsHandlerCall(c) == c.fn = "handler"
HandlerCalls == SelectSeq(calls, IsHandlerCall)

\* the positions in `calls` of the error handler's calls for handler k
ErrorCallsFor(k) == {i \in DOMAIN calls : calls[i].fn = "error" /\ calls[i].idx = k}

\* the position in `calls` of the k-th call of a handler
RECURSIVE PositionOf(_, _)
PositionOf(k, from) ==
    IF calls[from].fn = "handler" /\ calls[from].idx = k THEN from
    ELSE PositionOf(k, from + 1)

\* the pair the loop holds after handler k: what it returned, or what the
\* error handler made of its failure
Recovered(k) == \/ HandlerCalls[k].result.tag = "Ok"
                \/ ErrorCallsFor(k) # {}
PairAfter(k) ==
    LET r == HandlerCalls[k].result
    IN IF r.tag = "Ok" THEN <<r.req, r.res>>
       ELSE LET e == calls[CHOOSE i \in ErrorCallsFor(k) : TRUE].result
            IN <<e.req, e.res>>

\* the response is on the wire
Responded == wire # <<>>

\* the status line and the body of the bytes on the wire
StatusLineOf(w) == SubSeq(w, 1, Find(w, <<"\n">>) - 1)
BodyOf(w) == SubSeq(w, Find(w, <<"\n", "\n">>) + 2, Len(w))
StatusLine(version, code, reason) ==
    version \o <<" ">> \o code \o <<" ">> \o reason

\* C8: the handlers are called in the order insert_handler registered them,
\* each once; the first gets the decoded request and the default response,
\* each next one the pair its predecessor returned or the error handler
\* recovered; the response is written only after all of them, from the last
\* pair. The chain [status 200, body "ok"] is answered 200 OK with body ok.
C8_LeftFold ==
    LET H == HandlerCalls
    IN /\ Len(H) <= Len(registered)
       /\ \A k \in DOMAIN H :
             /\ H[k].idx = k
             /\ H[k].kind = registered[k]
             /\ k = 1 => /\ H[k].req.ok
                         /\ H[k].req.version = split(stream.lines[1], <<" ">>)[3]
                         /\ H[k].res.status.code = 404
                         /\ H[k].res.headers = EmptyMap
                         /\ H[k].res.body = <<>>
             /\ k > 1 => /\ Recovered(k - 1)
                         /\ <<H[k].req, H[k].res>> = PairAfter(k - 1)
       /\ (pc[Main] = "write" \/ Responded) =>
             /\ Len(H) = Len(registered)
             /\ H # <<>> => Recovered(Len(H)) /\ <<req, res>> = PairAfter(Len(H))
       /\ (Responded /\ registered = <<"status200", "bodyOk">>) =>
             /\ StatusLineOf(wire) = StatusLine(req.version, <<"2", "0", "0">>, OK)
             /\ BodyOf(wire) = ok_body

\* C8 witness: the chain [status 200, body "ok"] has run and is answered.
C8_Witness ==
    /\ Responded
    /\ registered = <<"status200", "bodyOk">>
    /\ Len(HandlerCalls) = 2

\* C9: the error handler is called for a handler exactly when that handler
\* returned Err, once, right after it, with the request, response and cause
\* of that Err, and it is the installed one; the loop then goes on with the
\* next handler, so a response is written only after every handler was called.
C9_RecoverAndContinue ==
    LET H == HandlerCalls
    IN /\ \A k \in DOMAIN H :
             IF H[k].result.tag = "Err"
             THEN \/ /\ pc[Main] = "recover"
                     /\ k = Len(H)
                     /\ idx = k
                     /\ ErrorCallsFor(k) = {}
                     /\ <<req, res, cause>> =
                           <<H[k].result.req, H[k].result.res, H[k].result.cause>>
                  \/ /\ pc[Main] # "recover" \/ k < Len(H)
                     /\ Cardinality(ErrorCallsFor(k)) = 1
                     /\ \A i \in ErrorCallsFor(k) :
                           /\ i = PositionOf(k, 1) + 1
                           /\ calls[i].kind = error_handler
                           /\ calls[i].req = H[k].result.req
                           /\ calls[i].res = H[k].result.res
                           /\ calls[i].cause = H[k].result.cause
             ELSE ErrorCallsFor(k) = {}
       /\ \A i \in DOMAIN calls :
             calls[i].fn = "error" => calls[i].idx \in DOMAIN H
       /\ pc[Main] = "chain" => idx = Len(H) + 1
       /\ (pc[Main] = "write" \/ Responded) => Len(H) = Len(handlers)

\* C9 witness: the first of two handlers failed, the error handler ran once,
\* the second handler was called and the response is written.
C9_Witness ==
    /\ Responded
    /\ Len(HandlerCalls) = 2
    /\ HandlerCalls[1].result.tag = "Err"
    /\ Cardinality(ErrorCallsFor(1)) = 1

\* no call, of a handler or of the error handler, changed the status
StatusUnchanged ==
    \A i \in DOMAIN calls : calls[i].result.res.status = calls[i].res.status

\* no call changed the body
BodyUnchanged ==
    \A i \in DOMAIN calls : calls[i].result.res.body = calls[i].res.body

NotFoundLine == StatusLine(req.version, <<"4", "0", "4">>, NotFound)

\* C10 as stated: when the chain is empty or no handler sets the status, the
\* response written has status 404 Not Found and an empty body.
C10_AsStated ==
    (Responded /\ (handlers = <<>> \/ StatusUnchanged)) =>
        /\ StatusLineOf(wire) = NotFoundLine
        /\ BodyOf(wire) = <<>>

\* C10 amended: when the chain is empty or no call of a handler or of the
\* error handler changes the status, the response written has status
\* 404 Not Found; its body is what the handlers left: empty when the chain
\* is empty or no call wrote a body.
C10_Default404 ==
    (Responded /\ (handlers = <<>> \/ StatusUnchanged)) =>
        /\ StatusLineOf(wire) = NotFoundLine
        /\ BodyOf(wire) = res.body
        /\ (handlers = <<>> \/ BodyUnchanged) => BodyOf(wire) = <<>>

\* C10 witness: a chain that never sets the status is answered 404 with the
\* body a handler wrote.
C10_Witness ==
    /\ Responded
    /\ handlers # <<>>
    /\ StatusUnchanged
    /\ StatusLineOf(wire) = NotFoundLine
    /\ BodyOf(wire) = ok_body

\* the error handler's calls made while the default one is installed
DefaultErrorCalls ==
    {i \in DOMAIN calls : calls[i].fn = "error" /\ calls[i].kind = "default"}

\* the reason phrase of status 500
InternalServerError ==
    <<"I", "n", "t", "e", "r", "n", "a", "l", " ", "S", "e", "r", "v", "e", "r", " ", "E", "r", "r", "o", "r">>

\* C11: with no custom error handler installed, a handler failure with
\* cause c makes the default error handler return status code 500 with the
\* reason phrase "Internal Server Error" and a body that contains the text
\* of c; the request is returned unchanged.
C11_AsStated ==
    \A i \in DefaultErrorCalls :
        LET r == calls[i].result
        IN /\ r.tag = "Ok"
           /\ r.res.status = [code |-> 500, reason |-> InternalServerError]
           /\ Find(r.res.body, calls[i].cause) # 0
           /\ r.req = calls[i].req

\* C11 witness: the default error handler has answered a failure and its
\* response, with the reason phrase of the source, is written.
C11_Witness ==
    /\ Responded
    /\ DefaultErrorCalls # {}
    /\ \A i \in DefaultErrorCalls :
          calls[i].result.res.status = [code |-> 500, reason |-> InteralServerError]
    /\ registered = <<"fail">>
    /\ StatusLineOf(wire) = StatusLine(req.version, <<"5", "0", "0">>, InteralServerError)

\* the lines of the bytes on the wire before the empty line, and the header
\* lines among them
HeadOf(w) == SubSeq(w, 1, Find(w, <<"\n", "\n">>) - 1)
WireLines(w) == split(HeadOf(w), <<"\n">>)
HeaderLinesOf(w) == Tail(WireLines(w))

\* the name and the value of a header line
NameOf(line) == SubSeq(line, 1, Find(line, ColonSpace) - 1)
ValueOf(line) == SubSeq(line, Find(line, ColonSpace) + 2, Len(line))

\* the header lines on the wire that carry the given name
LinesNamed(w, name) ==
    {i \in DOMAIN HeaderLinesOf(w) : NameOf(HeaderLinesOf(w)[i]) = name}

\* a handler was called that put its own Content-Length into the response
LengthSupplied ==
    \E i \in DOMAIN calls :
        /\ calls[i].kind = "length99"
        /\ calls[i].result.res.headers[ContentLength] = NinetyNine

\* C12: whatever headers the handlers set, the bytes written carry one
\* Content-Length header and its value is the length of the body written
\* after the empty line, 0 for an empty body; a Content-Length value a
\* handler put into the response is overwritten and is not in the output.
C12_ContentLength ==
    Responded =>
        LET L == LinesNamed(wire, ContentLength)
        IN /\ Cardinality(L) = 1
           /\ BodyOf(wire) = res.body
           /\ \A i \in L :
                 LET value == ValueOf(HeaderLinesOf(wire)[i])
                 IN /\ parse_usize(value) = Len(BodyOf(wire))
                    /\ BodyOf(wire) = <<>> => value = <<"0">>
                    /\ LengthSupplied => value # NinetyNine

\* C12 witness: a handler set Content-Length to 99, another wrote the body
\* ok, and the response is written with Content-Length 2.
C12_Witness ==
    /\ Responded
    /\ LengthSupplied
    /\ res.headers[ContentLength] = NinetyNine
    /\ BodyOf(wire) = ok_body
    /\ \E i \in LinesNamed(wire, ContentLength) :
          ValueOf(HeaderLinesOf(wire)[i]) = <<"2">>

\* C13: the bytes written carry exactly one Content-Type header; it is the
\* default application/octet-stream if and only if the response had no
\* Content-Type header when write_response started, and otherwise the value
\* a handler or the default error handler set, unchanged.
C13_ContentType ==
    Responded =>
        LET L == LinesNamed(wire, ContentType)
        IN /\ Cardinality(L) = 1
           /\ \A i \in L :
                 LET value == ValueOf(HeaderLinesOf(wire)[i])
                 IN IF ContentType \in DOMAIN res.headers
                    THEN value = res.headers[ContentType]
                    ELSE value = OctetStream

\* C13 witness: the default error handler set Content-Type to text/plain
\* and the response is written with that one Content-Type.
C13_Witness ==
    /\ Responded
    /\ DefaultErrorCalls # {}
    /\ ContentType \in DOMAIN res.headers
    /\ res.headers[ContentType] = TextPlain
    /\ \E i \in LinesNamed(wire, ContentType) :
          ValueOf(HeaderLinesOf(wire)[i]) = TextPlain

\* the status codes of the model as write_response prints them
CodeText(code) ==
    CASE code = 200 -> <<"2", "0", "0">>
      [] code = 404 -> <<"4", "0", "4">>
      [] code = 500 -> <<"5", "0", "0">>
      [] code = 503 -> <<"5", "0", "3">>

\* the names of the header map write_response iterates
WrittenNames == DOMAIN res.headers \cup {ContentType, ContentLength}

Http10 == <<"H", "T", "T", "P", "/", "1", ".", "0">>

\* C14: the bytes written are, in this order, the status line
\* `<version> <code> <reason>` with the version of the request line, one
\* line `<name>: <value>` for each entry of the response header map, each
\* entry once, an empty line, and the body bytes unchanged.
C14_Layout ==
    Responded =>
        LET lines == WireLines(wire)
            headers == HeaderLinesOf(wire)
        IN /\ lines[1] = StatusLine(split(stream.lines[1], <<" ">>)[3],
                                    CodeText(res.status.code), res.status.reason)
           /\ Len(headers) = Cardinality(WrittenNames)
           /\ \A k \in WrittenNames :
                 Cardinality(LinesNamed(wire, k)) = 1
           /\ \A k \in DOMAIN res.headers \ {ContentLength} :
                 \A i \in LinesNamed(wire, k) :
                     headers[i] = k \o ColonSpace \o res.headers[k]
           /\ wire = HeadOf(wire) \o <<"\n", "\n">> \o res.body

\* C14 witness: a request of version HTTP/1.0 is answered with three header
\* lines and a body.
C14_Witness ==
    /\ Responded
    /\ req.version = Http10
    /\ SubSeq(wire, 1, 8) = Http10
    /\ Len(HeaderLinesOf(wire)) = 3
    /\ res.body # <<>>

\* the positions of the spaces of a line, and its k-th one (the end of the
\* line when it has fewer)
Spaces(line) == {i \in DOMAIN line : line[i] = " "}
SpaceAt(line, k) ==
    IF Cardinality(Spaces(line)) < k THEN Len(line) + 1
    ELSE CHOOSE i \in Spaces(line) :
            Cardinality({j \in Spaces(line) : j < i}) = k - 1

\* the peer sent no headline, or a first one of fewer than three tokens
Malformed(s) == s.lines = <<>> \/ Cardinality(Spaces(s.lines[1])) < 2

ExampleLine ==
    <<"G", "E", "T", " ", "/", "a", "/", "b", "?", "x", "=", "1", " ", "H", "T", "T", "P", "/", "1", ".", "1">>

\* C15: the first headline is cut at its single spaces and the first three
\* tokens are the method, the URI and the version: "GET /a/b?x=1 HTTP/1.1"
\* gives GET, /a/b?x=1, HTTP/1.1. When the peer sent no headline or a first
\* headline of fewer than three tokens, no Request is made, no handler or
\* error handler is called and nothing is written.
C15_RequestLine ==
    stream # <<>> =>
        /\ Malformed(stream) =>
              /\ req = <<>>
              /\ calls = <<>>
              /\ ~Responded
              /\ \A i \in DOMAIN finished : finished[i].outcome = "abandoned"
        /\ req # <<>> =>
              LET line == stream.lines[1]
              IN /\ ~Malformed(stream)
                 /\ req.method = SubSeq(line, 1, SpaceAt(line, 1) - 1)
                 /\ req.uri = SubSeq(line, SpaceAt(line, 1) + 1, SpaceAt(line, 2) - 1)
                 /\ req.version = SubSeq(line, SpaceAt(line, 2) + 1, SpaceAt(line, 3) - 1)
        /\ (req # <<>> /\ stream.lines[1] = ExampleLine) =>
              /\ req.method = <<"G", "E", "T">>
              /\ req.uri = <<"/", "a", "/", "b", "?", "x", "=", "1">>
              /\ req.version = <<"H", "T", "T", "P", "/", "1", ".", "1">>

\* C15 witness: a server with a handler was sent the request line "GET /a"
\* and gave the connection up without calling the handler.
C15_Witness ==
    /\ stream # <<>>
    /\ stream.lines = <<<<"G", "E", "T", " ", "/", "a">>>>
    /\ handlers # <<>>
    /\ finished # <<>>
    /\ finished[1].outcome = "abandoned"
    /\ calls = <<>>
    /\ ~Responded

\* the headlines after the request line, and those that contain ": "
HeaderLinesSent == IF stream.lines = <<>> THEN <<>> ELSE Tail(stream.lines)
WithSeparator ==
    {i \in DOMAIN HeaderLinesSent : Find(HeaderLinesSent[i], ColonSpace) # 0}

Note == <<"N", "o", "t", "e">>

\* C16: each headline after the request line is cut at its first ": " into
\* the name and the value, the value being all the text after it with any
\* later ": "; the name keeps its case, the last line of a name gives its
\* value, and a headline without ": " adds no header and is no error.
C16_AsStated ==
    req # <<>> =>
        /\ DOMAIN req.headers =
              {NameOf(HeaderLinesSent[i]) : i \in WithSeparator}
        /\ \A i \in WithSeparator :
              (\A j \in WithSeparator :
                  j > i => NameOf(HeaderLinesSent[j]) # NameOf(HeaderLinesSent[i]))
              => req.headers[NameOf(HeaderLinesSent[i])] = ValueOf(HeaderLinesSent[i])

\* C16 witness: the headline "Note: a: b" was decoded and the header Note
\* has the value a.
C16_Witness ==
    /\ req # <<>>
    /\ \E i \in WithSeparator :
          HeaderLinesSent[i] = <<"N", "o", "t", "e", ":", " ", "a", ":", " ", "b">>
    /\ req.headers[Note] = <<"a">>

\* two names are equal when the case of the letters is ignored
SameIgnoringCase(a, b) ==
    /\ Len(a) = Len(b)
    /\ \A i \in DOMAIN a : LowerChar(a[i]) = LowerChar(b[i])

\* the header lines sent whose name, the text before the colon, is
\* Content-Length in any case
LengthLines ==
    {i \in DOMAIN HeaderLinesSent :
        /\ Find(HeaderLinesSent[i], <<":">>) # 0
        /\ SameIgnoringCase(SubSeq(HeaderLinesSent[i], 1,
                                   Find(HeaderLinesSent[i], <<":">>) - 1),
                            ContentLength)}

\* the text of a header line after its colon
AfterColon(line) == SubSeq(line, Find(line, <<":">>) + 1, Len(line))

\* the length the peer declared: the value of the first of these lines as a
\* non-negative integer, 0 when there is none or the value is not one
DeclaredLength ==
    IF LengthLines = {} THEN 0
    ELSE LET i == CHOOSE k \in LengthLines : \A j \in LengthLines : k <= j
             n == parse_usize(trim(AfterColon(HeaderLinesSent[i])))
         IN IF n >= 0 THEN n ELSE 0

\* C17: the body of the decoded request has the length given by the header
\* whose name is Content-Length in any case, read as a non-negative integer;
\* when there is no such header or its value is negative or not a number
\* the length is 0, the body is empty and the request is decoded all the
\* same.
C17_BodyLength ==
    (stream # <<>> /\ ~Malformed(stream)) =>
        /\ req # <<>> => Len(req.body) = DeclaredLength
        /\ (DeclaredLength = 0 /\ pc[Main] # "decode") =>
              /\ req # <<>>
              /\ req.body = <<>>

\* C17 witness: the headline "content-LENGTH:  2 " was sent with the body hi
\* and the decoded request has that body.
C17_Witness ==
    /\ req # <<>>
    /\ \E i \in LengthLines :
          HeaderLinesSent[i] =
             <<"c", "o", "n", "t", "e", "n", "t", "-", "L", "E", "N", "G", "T", "H", ":", " ", " ", "2", " ">>
    /\ req.body = <<"h", "i">>

\* C18: when the declared length L is above 0, the body of the decoded
\* request is the first L bytes that follow the empty line and no byte after
\* them; when the stream ends before L bytes have come, no Request is made,
\* no handler or error handler is called and nothing is written.
C18_ExactBody ==
    (stream # <<>> /\ ~Malformed(stream) /\ DeclaredLength > 0) =>
        /\ req # <<>> =>
              /\ Len(stream.rest) >= DeclaredLength
              /\ req.body = SubSeq(stream.rest, 1, DeclaredLength)
              /\ Len(req.body) = DeclaredLength
        /\ Len(stream.rest) < DeclaredLength =>
              /\ req = <<>>
              /\ calls = <<>>
              /\ ~Responded
              /\ (~stream.open /\ pc[Main] # "decode") =>
                    /\ finished # <<>>
                    /\ finished[1].outcome = "abandoned"

\* C18 witness: a server with a handler was sent Content-Length 3 and two
\* bytes before the stream ended, and gave the connection up.
C18_Witness ==
    /\ stream # <<>>
    /\ DeclaredLength = 3
    /\ stream.rest = <<"h", "i">>
    /\ ~stream.open
    /\ handlers # <<>>
    /\ finished # <<>>
    /\ finished[1].outcome = "abandoned"
    /\ calls = <<>>
    /\ ~Responded

----------------------------------------------------------------------------
\* Properties of routing

\* the calls of the router among the calls of the chain
RouterCalls == {i \in DOMAIN calls : calls[i].kind = "router"}

\* the path a request asks for: its URI up to the first '?'
AskedPath(rq) ==
    LET q == {i \in DOMAIN rq.uri : rq.uri[i] = "?"}
    IN IF q = {} THEN rq.uri
       ELSE SubSeq(rq.uri, 1, (CHOOSE i \in q : \A j \in q : i <= j) - 1)

\* the routes defined with exactly that path
Matching(rq) == {i \in DOMAIN routes : routes[i].path = AskedPath(rq)}

PathsDefined == [i \in DOMAIN routes |-> routes[i].path]

TestPath == <<"/", "t", "e", "s", "t", "/">>
DocumentedRoutes ==
    /\ Len(routes) = 2
    /\ routes[1].path = TestPath /\ routes[1].filter = <<>>
    /\ routes[2].path = TestPath /\ routes[2].filter = GET
GetTest(rq) == rq.method = GET /\ rq.uri = TestPath

\* C20: with Route::all("/test/") and then Route::get("/test/") defined, a
\* GET request for /test/ makes the router call the handler of the first
\* route and then the handler of the second as well.
C20_AsDocumented ==
    \A i \in RouterCalls :
        (DocumentedRoutes /\ GetTest(calls[i].req)) => routed = <<1, 2>>

\* C20 witness: with these two routes a GET request for /test/ was routed
\* to the first route only and answered.
C20_Witness ==
    /\ Responded
    /\ DocumentedRoutes
    /\ GetTest(req)
    /\ RouterCalls # {}
    /\ routed = <<1>>
    /\ routes[1].handler = "bodyOk"
    /\ routes[2].handler = "status200"
    /\ res.status.code = 404

\* the route constructors that filter, with the method each one names
MethodOf(route) ==
    LET p == route.path
        h == route.handler
    IN CASE route = Route_get(p, h) -> <<"G", "E", "T">>
         [] route = Route_post(p, h) -> <<"P", "O", "S", "T">>
         [] route = Route_put(p, h) -> <<"P", "U", "T">>
         [] route = Route_patch(p, h) -> <<"P", "A", "T", "C", "H">>
         [] route = Route_delete(p, h) -> <<"D", "E", "L", "E", "T", "E">>
         [] OTHER -> <<>>

\* C21: the closure of a route made by Route::get, post, put, patch or
\* delete calls the handler it wraps exactly when the method of the request
\* is GET, POST, PUT, PATCH or DELETE respectively, letter for letter, and
\* otherwise returns the request and the response as they came, as Ok; the
\* closure of a route made by Route::all calls its handler whatever the
\* method.
C21_MethodFilter ==
    \A i \in RouterCalls :
        \A k \in DOMAIN routed :
            LET c == calls[i]
                route == routes[routed[k]]
            IN IF route = Route_all(route.path, route.handler)
                  \/ c.req.method = MethodOf(route)
               THEN /\ c.result = Handle(route.handler, c.req, c.res)
                    /\ c.result.res # c.res
               ELSE c.result = Ok(c.req, c.res)

\* C21 witness: a route made by Route::delete was asked with PATCH and
\* left the response alone, and the answer is written.
C21_Witness ==
    /\ Responded
    /\ RouterCalls # {}
    /\ routed = <<1>>
    /\ routes[1] = Route_delete(<<"/", "a">>, "status200")
    /\ req.method = <<"P", "A", "T", "C", "H">>
    /\ res.status.code = 404

----------------------------------------------------------------------------
\* Properties of static serving

\* the calls of the closure of serve_static among the calls of the chain
StaticCalls == {i \in DOMAIN calls : calls[i].kind = "static"}

StartsWith(s, pre) == Len(s) >= Len(pre) /\ SubSeq(s, 1, Len(pre)) = pre
EndsWith(s, suf) ==
    Len(s) >= Len(suf) /\ SubSeq(s, Len(s) - Len(suf) + 1, Len(s)) = suf

\* the regular files `public/<p>` a request path `/public/<p>` names
NamedFiles(p) ==
    IF StartsWith(p, <<"/", "p", "u", "b", "l", "i", "c", "/">>)
    THEN {f \in Files : f.is_file /\ f.path = Canonical(SubSeq(p, 2, Len(p)))}
    ELSE {}

\* C22: serving "public" under the prefix /public, a request whose path is
\* /public/<p> with public/<p> an existing regular file is answered by the
\* static handler with status 200, a Content-Type guessed from the
\* extension (text/plain for .txt) and the bytes of the file as the body; a
\* request for a missing file or for a path that does not start with the
\* prefix leaves the response as it came, and so does one for a directory
\* under public; the handler always returns Ok with the request unchanged.
C22_ServeStatic ==
    \A i \in StaticCalls :
        LET c == calls[i]
            p == AskedPath(c.req)
        IN /\ c.result.tag = "Ok"
           /\ c.result.req = c.req
           /\ \A f \in NamedFiles(p) :
                 /\ c.result.res.status = [code |-> 200, reason |-> OK]
                 /\ c.result.res.body = f.data
                 /\ ContentType \in DOMAIN c.result.res.headers
                 /\ EndsWith(p, <<".", "t", "x", "t">>) =>
                       c.result.res.headers[ContentType] = TextPlain
                 /\ EndsWith(p, <<".", "h", "t", "m", "l">>) =>
                       c.result.res.headers[ContentType] = TextHtml
           /\ (~StartsWith(p, <<"/", "p", "u", "b", "l", "i", "c">>)
               \/ \A f \in Files : f.path # Canonical(SubSeq(p, 2, Len(p)))) =>
                 c.result.res = c.res
           /\ (StartsWith(p, <<"/", "p", "u", "b", "l", "i", "c", "/">>)
               /\ NamedFiles(p) = {}) =>
                 c.result.res = c.res

\* C22 witness: /public/x.txt was asked, the static handler made the
\* response 200 text/plain with the file's bytes, and it is written.
C22_Witness ==
    /\ Responded
    /\ handlers = <<"static">>
    /\ AskedPath(req) = <<"/", "p", "u", "b", "l", "i", "c", "/", "x", ".", "t", "x", "t">>
    /\ res.status.code = 200
    /\ res.headers[ContentType] = TextPlain
    /\ res.body = <<"h", "e", "l", "l", "o">>
    /\ BodyOf(wire) = <<"h", "e", "l", "l", "o">>

\* the files whose bytes a call of the static handler put into the response
FilesServed(c) ==
    IF c.result.res = c.res THEN {}
    ELSE {f \in Files : f.is_file /\ f.data = c.result.res.body}

UnderRoot(f) == StartsWith(f.path, <<"p", "u", "b", "l", "i", "c", "/">>)

\* C28: whatever the request path, also one that only begins with the
\* letters of the prefix (/publicfoo/x) or has ".." segments after it, the
\* static handler either leaves the response untouched or serves a file
\* that lies in the root directory.
C28_AsStated ==
    \A i \in StaticCalls :
        \/ calls[i].result.res = calls[i].res
        \/ /\ FilesServed(calls[i]) # {}
           /\ \A f \in FilesServed(calls[i]) : UnderRoot(f)

\* C28 witness: /public/../secret.txt was asked and the bytes of secret.txt,
\* a file next to the root directory, are written as the body of a 200.
C28_Witness ==
    /\ Responded
    /\ StaticCalls # {}
    /\ req.uri = <<"/", "p", "u", "b", "l", "i", "c", "/", ".", ".", "/", "s", "e", "c", "r", "e", "t", ".", "t", "x", "t">>
    /\ res.status.code = 200
    /\ BodyOf(wire) = <<"k", "e", "y">>
    /\ \E f \in Files : f.data = BodyOf(wire) /\ ~UnderRoot(f)

----------------------------------------------------------------------------
\* Properties of the order of the steps

\* the steps of handle_tcp_stream the acceptor can be in
InConnection == pc[Main] \in {"decode", "chain", "recover", "write"}

\* C23: on a connection the steps come in the order decode, handlers 1 to
\* n, write: the Request is made once, in the decode step and before any
\* call; each call of a handler is for the next position of the list; the
\* bytes of the response are written once, from the write step and after as
\* many handler calls as there are handlers; and once they are written the
\* connection is not decoded, handled or written again.
C23_OneShot ==
    [][ /\ (pc[Main] = "decode" /\ pc'[Main] # "decode") =>
              pc'[Main] \in {"chain", "accept"}
        /\ (pc[Main] = "chain" /\ pc'[Main] # "chain") =>
              pc'[Main] \in {"recover", "write", "accept"}
        /\ (pc[Main] = "recover" /\ pc'[Main] # "recover") =>
              pc'[Main] = "chain"
        /\ (pc[Main] = "write" /\ pc'[Main] # "write") =>
              pc'[Main] = "accept"
        /\ req' # req =>
              IF req = <<>>
              THEN pc[Main] = "decode" /\ calls = <<>> /\ wire = <<>>
              ELSE pc[Main] \in {"chain", "recover"}
        /\ calls' # calls =>
              /\ pc[Main] \in {"chain", "recover"}
              /\ req # <<>>
              /\ wire = <<>>
              /\ Len(calls') = Len(calls) + 1
              /\ calls'[Len(calls')].fn = "handler" =>
                    calls'[Len(calls')].idx = Len(HandlerCalls) + 1
        /\ wire' # wire =>
              /\ wire = <<>>
              /\ pc[Main] = "write"
              /\ Len(HandlerCalls) = Len(handlers)
              /\ \A k \in DOMAIN HandlerCalls : HandlerCalls[k].idx = k
        /\ Responded =>
              /\ pc'[Main] \notin {"decode", "chain", "recover", "write"}
              /\ stream' = stream
              /\ calls' = calls
      ]_vars

\* C23 witness: a connection was decoded, its two handlers were called in
\* order, the response was written and the acceptor is back at accept.
C23_Witness ==
    /\ Responded
    /\ Len(handlers) = 2
    /\ Len(HandlerCalls) = 2
    /\ HandlerCalls[1].idx = 1
    /\ HandlerCalls[2].idx = 2
    /\ ~InConnection
    /\ finished # <<>>
    /\ finished[1].outcome = "responded"

----------------------------------------------------------------------------
\* Properties of the acceptor and the pool under stalled connections

\* thread t is reading a connection that never delivers what it declared
Blocked(t) == pc[t] = "decode" /\ cur[t] \in stalled

\* every executor of the pool is blocked on such a connection
AllStalled ==
    /\ mode = "MultiThread"
    /\ executors = size
    /\ size > 0
    /\ \A w \in 1..size : Blocked(w)

\* C24: there is no timeout. A thread whose connection never delivers the
\* bytes it declared stays in that read for ever and takes no other job;
\* the jobs in the queue go on being taken, down to the last, unless every
\* executor becomes blocked; once every executor of the pool is blocked, no
\* queued job is ever taken or called; and a SingleThread server blocked
\* on one connection accepts no other.
C24_NoTimeout ==
    /\ [][ /\ \A t \in Threads :
                Blocked(t) => /\ pc'[t] = pc[t]
                              /\ cur'[t] = cur[t]
                              /\ \A i \in DOMAIN called' :
                                    called'[i].by = t => i \in DOMAIN called
           /\ AllStalled => /\ taken' = taken
                            /\ called' = called
                            /\ finished' = finished
                            /\ queue # <<>> => Len(queue') >= Len(queue)
           /\ (mode = "SingleThread" /\ Blocked(Main)) =>
                 accepted' = accepted
         ]_vars
    /\ (queue # <<>>) ~> (queue = <<>> \/ AllStalled)

\* C24 witness: every executor of the pool is blocked on a stalled
\* connection while a later job waits in the queue.
C24_Witness ==
    /\ AllStalled
    /\ queue # <<>>
    /\ \A i \in DOMAIN queue : \A w \in 1..size : queue[i] > cur[w]

----------------------------------------------------------------------------
\* Properties of registration

\* the threads that hold a read lock on the handler list: the for loop of
\* handle_tcp_stream keeps the guard while it runs
Readers == {t \in Threads : pc[t] = "chain"}

\* a job exists: accepted and not yet returned
JobsAlive == queue # <<>> \/ \E t \in Threads : cur[t] # 0

\* C25: the handler list and the error handler are written only before
\* listen starts, when no connection was accepted and no job exists, so no
\* read lock of a job ever meets a writer; from listen on they stay as they
\* are, so every job on every executor reads the same list and the same
\* error handler.
C25_SetupOnly ==
    [][ /\ (handlers' # handlers \/ error_handler' # error_handler) =>
              /\ pc[Main] = "ready"
              /\ pc'[Main] = "ready"
              /\ accepted = 0
              /\ ~JobsAlive
              /\ Readers = {}
        /\ (pc[Main] \notin {"new", "spawn", "ready"} \/ accepted > 0 \/ JobsAlive) =>
              /\ handlers' = handlers
              /\ error_handler' = error_handler
              /\ pc'[Main] # "ready"
      ]_vars

\* C25 witness: two executors run the handler chain of their jobs at the
\* same time, on a server with a handler and a custom error handler.
C25_Witness ==
    /\ mode = "MultiThread"
    /\ handlers # <<>>
    /\ error_handler = "custom"
    /\ \E v, w \in Executors :
          /\ v # w
          /\ {v, w} \subseteq Readers
          /\ cur[v] # cur[w]

----------------------------------------------------------------------------
\* Properties of the acceptor

\* the jobs that have returned, by a response or by a caught panic
Returned == {finished[i].job : i \in DOMAIN finished}

\* C26: a SingleThread server runs the job of a connection inside the
\* accept loop: when connection k + 1 is accepted, the jobs of connections
\* 1 to k have all returned. A MultiThread server only puts the job at the
\* end of the queue and is at accept again, the job not yet called, and it
\* can accept the next connection however many jobs wait in the queue.
C26_InlineOrEnqueue ==
    /\ [][ accepted' # accepted =>
              /\ accepted' = accepted + 1
              /\ mode = "SingleThread" =>
                    /\ Returned = 1..accepted
                    /\ cur[Main] = 0
                    /\ cur'[Main] = accepted + 1
                    /\ pc'[Main] = "decode"
              /\ mode = "MultiThread" =>
                    /\ queue' = Append(queue, accepted + 1)
                    /\ pc'[Main] = "accept"
                    /\ called' = called
                    /\ cur' = cur
         ]_vars
    /\ [](mode = "SingleThread" => (pc[Main] = "accept" => Returned = 1..accepted))
    /\ []((mode = "MultiThread" /\ pc[Main] = "accept" /\ accepted < MaxJobs)
             => ENABLED Accept(FALSE))

\* C26 witness: a MultiThread server has accepted two connections while the
\* first job still waited in the queue, and neither has been called.
C26_Witness ==
    /\ mode = "MultiThread"
    /\ accepted = 2
    /\ queue = <<1, 2>>
    /\ called = <<>>
    /\ pc[Main] = "accept"

----------------------------------------------------------------------------
\* Properties of the lock around the receiver

\* the executors between receiver.lock() and the end of the let statement
LockHolders == {w \in Executors : pc[w] \in {"recv", "ok", "err"}}

\* the executors that run a job, and those at the top of their loop
Executing == {w \in Executors : pc[w] \in JobStages}
Idle == {w \in Executors : pc[w] \in {"lock", "recv"}}

\* C27: an executor holds the lock around the receiver only while it waits
\* for a job and takes it: at most one executor holds it, none that runs a
\* job holds it, and when a job is queued and some executor runs no job, an
\* executor that runs no job can take its next step towards that job
\* without any running job having to end.
C27_LockScope ==
    /\ Cardinality(LockHolders) <= 1
    /\ LockHolders = IF receiver = 0 THEN {} ELSE {receiver}
    /\ \A w \in Executing : receiver # w /\ cur[w] # 0
    /\ (queue # <<>> /\ Idle # {}) =>
          \E v \in Executors \ Executing :
              ENABLED (Lock(v) \/ Recv(v) \/ Unlock(v))

\* C27 witness: both executors of a pool of two run a job at the same time
\* and the lock is free.
C27_Witness ==
    /\ size = 2
    /\ Cardinality(Executing) = 2
    /\ receiver = 0
    /\ \A w \in Executing : pc[w] = "chain"

----------------------------------------------------------------------------
\* Properties of the decoded request as a whole

\* the entries of the request's header map that give the length n
LengthEntries(rq, n) ==
    {k \in DOMAIN rq.headers :
        /\ SameIgnoringCase(k, ContentLength)
        /\ parse_usize(trim(rq.headers[k])) = n}

\* C29: the body of a decoded request agrees with the request's header
\* map: when the body is not empty, the map has an entry whose name is
\* Content-Length in any case and whose value is the length of the body,
\* also for a request with several Content-Length lines or with no space
\* after the colon.
C29_AsStated ==
    (req # <<>> /\ req.body # <<>>) =>
        LengthEntries(req, Len(req.body)) # {}

\* C29 witness: a handler was called with a request whose body has two
\* bytes and whose header map has no Content-Length entry at all.
C29_Witness ==
    /\ HandlerCalls # <<>>
    /\ Len(HandlerCalls[1].req.body) = 2
    /\ \A k \in DOMAIN HandlerCalls[1].req.headers :
          ~SameIgnoringCase(k, ContentLength)

====
